---- MODULE Spec2Model ----
(***************************************************************************)
(* Model of upload_to_sheets.py (gounthar/alpha-omega-stats): the backoff  *)
(* computation, the classification of Google Sheets API errors, the retry  *)
(* wrapper, the validation of PR records and their grouping by title.      *)
(*                                                                         *)
(* Durations are integers in milliseconds (the code uses float seconds).   *)
(* The text of an exception is the set of the tokens it contains among     *)
(* those the code searches for; `x in error_str` is membership.            *)
(***************************************************************************)
EXTENDS Integers, Sequences, FiniteSets, TLC

VARIABLES
    \* successive calls of get_backoff_duration
    base_delay, max_delay, bo_attempt, bo_prev, bo_delay,
    \* one call of handle_google_api_error
    h_call,
    \* retry_with_backoff
    max_retries, attempt, last_error, rpc, calls, outcomes, sleeps, raised, result,
    \* one call of validate_pr_data
    v_call,
    \* process_consolidated_data (idx is its loop variable i)
    file, ppc, prs, idx, valid_prs, errors, title_groups, gi, ret,
    \* the main execution: its arguments and auxiliary files, its position, the
    \* remote calls it made, the failure of one of them, how the process ended
    argv, aux, mpc, remote, failure, exit_code,
    \* has_* flags, summary_data, the payloads written to the Summary sheet, the
    \* sheet names computed, the index of the cohort loop
    flags, summary_data, written, names, ci,
    \* the outcome of an earlier run on the same input
    prev_run,
    \* one call of sanitize_sheet_name; the titles of the cohorts of a run, and
    \* the values hash() has returned in the run
    s_call, plugins, hashes,
    \* update_sheet_with_retry: its argument, the content of the worksheet, the
    \* position in update(), the steps performed
    data, sheet, upc, ops,
    \* has_successful_builds_changed: successful_builds.csv and
    \* last_successful_builds.csv, the latest call, the number of runs so far
    csv_file, last_run_file, hb_call, runs,
    \* total_prs, open_prs, closed_prs and merged_prs of the summary, and the
    \* dict plugin_stats in insertion order
    totals, plugin_stats

vars == << base_delay, max_delay, bo_attempt, bo_prev, bo_delay, h_call,
           max_retries, attempt, last_error, rpc, calls, outcomes, sleeps,
           raised, result, v_call,
           file, ppc, prs, idx, valid_prs, errors, title_groups, gi, ret,
           argv, aux, mpc, remote, failure, exit_code,
           flags, summary_data, written, names, ci, prev_run,
           s_call, plugins, hashes,
           data, sheet, upc, ops, csv_file, last_run_file, hb_call, runs,
           totals, plugin_stats >>

backoffVars == << base_delay, max_delay, bo_attempt, bo_prev, bo_delay >>
retryVars == << max_retries, attempt, last_error, rpc, calls, outcomes, sleeps,
                raised, result >>
processVars == << file, ppc, prs, idx, valid_prs, errors, title_groups, gi, ret >>
sanitizeVars == << s_call, plugins, hashes >>
updateVars == << data, sheet, upc, ops >>
snapshotVars == << csv_file, last_run_file, hb_call, runs >>
statsVars == << totals, plugin_stats >>
driverVars == << argv, aux, mpc, remote, failure, exit_code,
                flags, summary_data, written, names, ci, prev_run, sanitizeVars,
                updateVars, snapshotVars, statsVars >>
\* the variables of the functions that are not running
dataIdleVars == << v_call, file, ppc, prs, idx, valid_prs, errors, title_groups, gi, ret,
                  driverVars >>

----------------------------------------------------------------------------
(* Bounds of the model *)

\* attempts 0..MaxAttempt are given to get_backoff_duration
MaxAttempt == 7
\* random.uniform(0, 0.1 * delay) is drawn from JitterSteps + 1 evenly spaced points
JitterSteps == 2

(* Program constants *)

\* base_delay=5 of get_backoff_duration
DefaultBaseDelay == 5
\* max_delay=300 of get_backoff_duration
DefaultMaxDelay == 300
\* base_delay=10 for backend errors
BackendBaseDelay == 10
\* base_delay=20 of the worksheet helpers
WorksheetBaseDelay == 20
\* max_retries=5 of retry_with_backoff
DefaultMaxRetries == 5

Min(a, b) == IF a <= b THEN a ELSE b

Pow2(n) == 2 ^ n

JitterChoices == 0 .. JitterSteps

\* delay = min(base_delay * (2 ** attempt), max_delay), in ms
UnjitteredDelay(att, base, maxd) == Min(base * Pow2(att), maxd) * 1000

\* jitter = random.uniform(0, 0.1 * delay): the k-th of the evenly spaced points
Jitter(delay, k) == ((delay \div 10) * k) \div JitterSteps

\* a backoff that is not clamped to max_delay
get_backoff_duration_unclamped(att, base, maxd, k) ==
    LET delay == base * Pow2(att) * 1000
    IN  delay + Jitter(delay, k)

\* get_backoff_duration(attempt, base_delay, max_delay), jitter draw k
get_backoff_duration(att, base, maxd, k) ==
    LET delay == UnjitteredDelay(att, base, maxd)
    IN  delay + Jitter(delay, k)

----------------------------------------------------------------------------
(* Error texts *)

\* the substrings handle_google_api_error searches for, before lower-casing
RawTokens == {"429", "quota", "Quota", "500", "502", "503", "504", "401", "403", "400"}

\* str.lower() on one token
LowerToken(t) == IF t = "Quota" THEN "quota" ELSE t

\* error_str = str(e).lower()
Lower(e) == { LowerToken(t) : t \in e }

RateLimitTokens == {"429", "quota"}
BackendTokens == {"500", "502", "503", "504"}
AuthTokens == {"401", "403"}
BadRequestTokens == {"400"}

\* an if chain that tests the authorization and 400 signals before the
\* rate-limit and backend ones
ErrorClass_authorization_first(error_str) ==
    IF "401" \in error_str \/ "403" \in error_str THEN "authorization"
    ELSE IF "400" \in error_str THEN "invalid_request"
    ELSE IF "429" \in error_str \/ "quota" \in error_str THEN "rate_limit"
    ELSE IF \E code \in {"500", "502", "503", "504"} : code \in error_str THEN "backend"
    ELSE "default"

\* the branch of handle_google_api_error that error_str takes: its if
\* statements in their order
ErrorClass(error_str) ==
    IF "429" \in error_str \/ "quota" \in error_str THEN "rate_limit"
    ELSE IF \E code \in {"500", "502", "503", "504"} : code \in error_str THEN "backend"
    ELSE IF "401" \in error_str \/ "403" \in error_str THEN "authorization"
    ELSE IF "400" \in error_str THEN "invalid_request"
    ELSE "default"

\* a handler that retries backend errors with the default base_delay
handle_google_api_error_backend_default(e, att, k) ==
    LET class == ErrorClass(Lower(e))
    IN  IF class \in {"authorization", "invalid_request"}
        THEN [retry |-> FALSE, wait |-> 0]
        ELSE [retry |-> TRUE,
              wait |-> get_backoff_duration(att, DefaultBaseDelay, DefaultMaxDelay, k)]

\* a handler that gives up on an error of no known class
handle_google_api_error_default_fatal(e, att, k) ==
    LET class == ErrorClass(Lower(e))
    IN  IF class = "rate_limit"
        THEN [retry |-> TRUE,
              wait |-> get_backoff_duration(att, DefaultBaseDelay, DefaultMaxDelay, k)]
        ELSE IF class = "backend"
        THEN [retry |-> TRUE,
              wait |-> get_backoff_duration(att, BackendBaseDelay, DefaultMaxDelay, k)]
        ELSE [retry |-> FALSE, wait |-> 0]

\* handle_google_api_error(e, attempt, max_retries): (should_retry, wait_time);
\* k is the jitter draw of the get_backoff_duration call
handle_google_api_error(e, att, k) ==
    LET class == ErrorClass(Lower(e))
    IN  IF class = "rate_limit"
        THEN [retry |-> TRUE,
              wait |-> get_backoff_duration(att, DefaultBaseDelay, DefaultMaxDelay, k)]
        ELSE IF class = "backend"
        THEN [retry |-> TRUE,
              wait |-> get_backoff_duration(att, BackendBaseDelay, DefaultMaxDelay, k)]
        ELSE IF class = "authorization"
        THEN [retry |-> FALSE, wait |-> 0]
        ELSE IF class = "invalid_request"
        THEN [retry |-> FALSE, wait |-> 0]
        ELSE [retry |-> TRUE,
              wait |-> get_backoff_duration(att, DefaultBaseDelay, DefaultMaxDelay, k)]

----------------------------------------------------------------------------
(* Successive calls of get_backoff_duration, attempt = 0, 1, 2, ...        *)

\* the (base_delay, max_delay) pairs the program passes
BaseDelays == {DefaultBaseDelay, BackendBaseDelay, WorksheetBaseDelay}

IdleBackoff ==
    /\ base_delay = 0
    /\ max_delay = 0
    /\ bo_attempt = 0
    /\ bo_prev = -1
    /\ bo_delay = -1

IdleHandle == h_call = [fn |-> "none"]

NoError == [kind |-> "none", text |-> {}]

IdleRetry ==
    /\ max_retries = 0
    /\ attempt = 0
    /\ last_error = NoError
    /\ rpc = "idle"
    /\ calls = 0
    /\ outcomes = << >>
    /\ sleeps = << >>
    /\ raised = NoError
    /\ result = "unset"

IdleValidate == v_call = [fn |-> "none"]

NoFailure == [at |-> "none", kind |-> "none"]

IdleSanitize ==
    /\ s_call = [fn |-> "none"]
    /\ plugins = << >>
    /\ hashes = << >>

Missing == [kind |-> "missing"]

IdleUpdate ==
    /\ data = [type |-> "none"]
    /\ sheet = << >>
    /\ upc = "idle"
    /\ ops = << >>

IdleSnapshot ==
    /\ csv_file = Missing
    /\ last_run_file = Missing
    /\ hb_call = [fn |-> "none"]
    /\ runs = 0

IdleStats ==
    /\ totals = [kind |-> "none"]
    /\ plugin_stats = << >>

IdleMain ==
    /\ argv = [kind |-> "none"]
    /\ aux = [kind |-> "none"]
    /\ mpc = "idle"
    /\ remote = << >>
    /\ failure = NoFailure
    /\ exit_code = -1
    /\ flags = [kind |-> "none"]
    /\ summary_data = << >>
    /\ written = << >>
    /\ names = << >>
    /\ ci = 0
    /\ prev_run = [kind |-> "none"]
    /\ IdleSanitize
    /\ IdleStats

IdleDriver ==
    /\ IdleMain
    /\ IdleUpdate
    /\ IdleSnapshot

IdleData ==
    /\ file = [kind |-> "none"]
    /\ ppc = "idle"
    /\ prs = << >>
    /\ idx = 0
    /\ valid_prs = << >>
    /\ errors = << >>
    /\ title_groups = << >>
    /\ gi = 0
    /\ ret = [kind |-> "none"]

IdleProcess ==
    /\ IdleData
    /\ IdleDriver

InitBackoff ==
    /\ base_delay \in BaseDelays
    /\ max_delay = DefaultMaxDelay
    /\ bo_attempt = 0
    /\ bo_prev = -1
    /\ bo_delay = -1
    /\ IdleHandle
    /\ IdleRetry
    /\ IdleValidate
    /\ IdleProcess

\* wait_time = get_backoff_duration(attempt, base_delay, max_delay); the next
\* call is for attempt + 1
GetBackoff ==
    /\ bo_attempt <= MaxAttempt
    /\ \E k \in JitterChoices :
         bo_delay' = get_backoff_duration(bo_attempt, base_delay, max_delay, k)
    /\ bo_prev' = bo_delay
    /\ bo_attempt' = bo_attempt + 1
    /\ UNCHANGED << base_delay, max_delay, h_call >>
    /\ UNCHANGED retryVars
    /\ UNCHANGED dataIdleVars

NextBackoff == GetBackoff

SpecBackoff == InitBackoff /\ [][NextBackoff]_vars

----------------------------------------------------------------------------
(* One call of handle_google_api_error on any error text *)

ErrorTexts == SUBSET RawTokens

InitHandle ==
    /\ IdleBackoff
    /\ IdleHandle
    /\ IdleRetry
    /\ IdleValidate
    /\ IdleProcess

HandleError ==
    /\ h_call.fn = "none"
    /\ \E e \in ErrorTexts, a \in 0 .. MaxAttempt, k \in JitterChoices :
         h_call' = [fn |-> "handle_google_api_error", e |-> e, attempt |-> a,
                    ret |-> handle_google_api_error(e, a, k)]
    /\ UNCHANGED backoffVars
    /\ UNCHANGED retryVars
    /\ UNCHANGED dataIdleVars

NextHandle == HandleError

SpecHandle == InitHandle /\ [][NextHandle]_vars

----------------------------------------------------------------------------
(* retry_with_backoff(func, max_retries) *)

\* texts of the gspread.exceptions.APIError values func raises in the model
ApiErrorTexts ==
    { {}, {"429"}, {"503"}, {"403", "Quota"}, {"400", "502"}, {"401"}, {"403"}, {"400"} }

ApiErrors == { [kind |-> "APIError", text |-> t] : t \in ApiErrorTexts }

\* the exceptions of the other except clauses; their text is never read
OtherErrors ==
    { [kind |-> "SpreadsheetNotFound", text |-> {}],
      [kind |-> "WorksheetNotFound", text |-> {}],
      [kind |-> "Exception", text |-> {}],
      [kind |-> "Exception", text |-> {"429"}] }

FuncErrors == ApiErrors \cup OtherErrors

\* what func() returns when it returns
FuncResults == {"None", "value"}

InitRetry ==
    /\ IdleBackoff
    /\ IdleHandle
    /\ IdleValidate
    /\ IdleProcess
    /\ max_retries \in 1 .. DefaultMaxRetries
    /\ attempt = 0
    /\ last_error = NoError
    /\ rpc = "attempting"
    /\ calls = 0
    /\ outcomes = << >>
    /\ sleeps = << >>
    /\ raised = NoError
    /\ result = "unset"

\* return func(): the wrapper's value when func returned r
ReturnValue(r) == r

\* try: return func()
FuncReturns ==
    /\ rpc = "attempting"
    /\ attempt < max_retries
    /\ calls' = calls + 1
    /\ \E r \in FuncResults :
         /\ outcomes' = Append(outcomes, [kind |-> "return", value |-> r])
         /\ result' = ReturnValue(r)
    /\ rpc' = "succeeded"
    /\ UNCHANGED << max_retries, attempt, last_error, sleeps, raised >>
    /\ UNCHANGED backoffVars
    /\ UNCHANGED h_call
    /\ UNCHANGED dataIdleVars

\* a wrapper whose first clause catches every exception
ExceptClause_catch_all(e) == "api"

\* the except clause that catches e: "api" is `except APIError`, "reraise" the
\* three clauses that log and raise
ExceptClause(e) == IF e.kind = "APIError" THEN "api" ELSE "reraise"

\* a test that forgets should_retry
ApiErrorRaises_ignoring_class(h, att, maxr) == att = maxr - 1

\* a test that is one attempt late
ApiErrorRaises_one_late(h, att, maxr) == ~ h.retry \/ att = maxr

\* if not should_retry or attempt == max_retries - 1: raise
ApiErrorRaises(h, att, maxr) == ~ h.retry \/ att = maxr - 1

\* a sleep of the unused parameter initial_delay=5
SleepDuration_initial_delay(h) == DefaultBaseDelay * 1000

\* time.sleep(wait_time)
SleepDuration(h) == h.wait

\* except gspread.exceptions.APIError as e
FuncFailsApi ==
    /\ rpc = "attempting"
    /\ attempt < max_retries
    /\ calls' = calls + 1
    /\ \E e \in FuncErrors, k \in JitterChoices :
         LET h == handle_google_api_error(e.text, attempt, k)
         IN  /\ ExceptClause(e) = "api"
             /\ outcomes' = Append(outcomes, e)
             /\ IF ApiErrorRaises(h, attempt, max_retries)
                THEN /\ raised' = e
                     /\ rpc' = "failed"
                     /\ UNCHANGED << attempt, last_error, sleeps >>
                ELSE /\ sleeps' = Append(sleeps, SleepDuration(h))
                     /\ last_error' = e
                     /\ attempt' = attempt + 1
                     /\ UNCHANGED << raised, rpc >>
    /\ UNCHANGED << max_retries, result >>
    /\ UNCHANGED backoffVars
    /\ UNCHANGED h_call
    /\ UNCHANGED dataIdleVars

\* except SpreadsheetNotFound / WorksheetNotFound / Exception: log and raise
FuncFailsOther ==
    /\ rpc = "attempting"
    /\ attempt < max_retries
    /\ calls' = calls + 1
    /\ \E e \in FuncErrors :
         /\ ExceptClause(e) = "reraise"
         /\ outcomes' = Append(outcomes, e)
         /\ raised' = e
    /\ rpc' = "failed"
    /\ UNCHANGED << max_retries, attempt, last_error, sleeps, result >>
    /\ UNCHANGED backoffVars
    /\ UNCHANGED h_call
    /\ UNCHANGED dataIdleVars

\* With max_retries >= 1 the for loop always ends by return or raise, so the
\* statements after it (raise last_error / return None) are not reached.
NextRetry == FuncReturns \/ FuncFailsApi \/ FuncFailsOther

SpecRetry == InitRetry /\ [][NextRetry]_vars

----------------------------------------------------------------------------
(* update_sheet_with_retry(sheet, data): retry_with_backoff(update), where  *)
(* update() clears the worksheet, sleeps, validates data, writes it and     *)
(* sleeps again                                                             *)

\* the rows given as data, and the rows of a worksheet
RowLists == { << >>, << "r1" >>, << "r1", "r2" >> }

\* the values given as data: the type of the object and its items
DataValues ==
    { [type |-> "list", val |-> r] : r \in RowLists }
    \cup { [type |-> "tuple", val |-> << >>], [type |-> "tuple", val |-> << "r1" >>],
           [type |-> "NoneType", val |-> << >>], [type |-> "str", val |-> << "r1" >>] }

\* a test that accepts any non-empty object
InvalidData_no_type_test(d) == d.val = << >>

\* `not data or not isinstance(data, (list, tuple))`
InvalidData(d) == d.val = << >> \/ d.type \notin {"list", "tuple"}

ValueError == [kind |-> "ValueError", text |-> {}]

\* the exceptions sheet.clear() and sheet.update() raise in the model
UpdateErrors ==
    { [kind |-> "APIError", text |-> {"429"}],
      [kind |-> "APIError", text |-> {"403"}],
      [kind |-> "Exception", text |-> {}] }

Op(step, ok) == [step |-> step, ok |-> ok, attempt |-> attempt]

InitUpdate ==
    /\ IdleBackoff
    /\ IdleHandle
    /\ IdleValidate
    /\ IdleData
    /\ IdleMain
    /\ IdleSnapshot
    /\ max_retries = DefaultMaxRetries
    /\ attempt = 0
    /\ last_error = NoError
    /\ rpc = "attempting"
    /\ calls = 0
    /\ outcomes = << >>
    /\ sleeps = << >>
    /\ raised = NoError
    /\ result = "unset"
    /\ data \in DataValues
    /\ sheet \in { << >>, << "old" >> }
    /\ upc = "clear"
    /\ ops = << >>

\* update() raised e: both except clauses of update() log and raise, and
\* retry_with_backoff sleeps and starts the next attempt, or raises
UpdateRaises(e) ==
    /\ calls' = calls + 1
    /\ outcomes' = Append(outcomes, e)
    /\ \E k \in JitterChoices :
         LET h == handle_google_api_error(e.text, attempt, k)
         IN  IF ExceptClause(e) = "api" /\ ~ ApiErrorRaises(h, attempt, max_retries)
             THEN /\ sleeps' = Append(sleeps, SleepDuration(h))
                  /\ last_error' = e
                  /\ attempt' = attempt + 1
                  /\ upc' = "clear"
                  /\ UNCHANGED << raised, rpc >>
             ELSE /\ raised' = e
                  /\ rpc' = "failed"
                  /\ upc' = "done"
                  /\ UNCHANGED << attempt, last_error, sleeps >>
    /\ UNCHANGED << max_retries, result >>

UpdateIdleVars == << backoffVars, h_call, v_call, processVars, argv, aux, mpc, remote,
                    failure, exit_code, flags, summary_data, written, names, ci,
                    prev_run, sanitizeVars, snapshotVars, statsVars >>

\* sheet.clear(); a call that fails may or may not have cleared the worksheet
ClearSheet ==
    /\ upc = "clear"
    /\ rpc = "attempting"
    /\ attempt < max_retries
    /\ \/ /\ sheet' = << >>
          /\ ops' = Append(ops, Op("clear", TRUE))
          /\ upc' = "sleep_1"
          /\ UNCHANGED retryVars
       \/ /\ sheet' \in { sheet, << >> }
          /\ ops' = Append(ops, Op("clear", FALSE))
          /\ \E e \in UpdateErrors : UpdateRaises(e)
    /\ UNCHANGED data
    /\ UNCHANGED UpdateIdleVars

\* time.sleep(1)
SettleAfterClear ==
    /\ upc = "sleep_1"
    /\ ops' = Append(ops, Op("sleep_1", TRUE))
    /\ upc' = "validate"
    /\ UNCHANGED << data, sheet >>
    /\ UNCHANGED retryVars
    /\ UNCHANGED UpdateIdleVars

\* if not data or not isinstance(data, (list, tuple)): raise ValueError
ValidateData ==
    /\ upc = "validate"
    /\ IF InvalidData(data)
       THEN /\ ops' = Append(ops, Op("validate", FALSE))
            /\ UpdateRaises(ValueError)
       ELSE /\ ops' = Append(ops, Op("validate", TRUE))
            /\ upc' = "update"
            /\ UNCHANGED retryVars
    /\ UNCHANGED << data, sheet >>
    /\ UNCHANGED UpdateIdleVars

\* sheet.update(range_name="A1", values=data): on a cleared worksheet the
\* content becomes the rows of data; a call that fails may or may not have
\* written them
WriteSheet ==
    /\ upc = "update"
    /\ \/ /\ sheet' = data.val
          /\ ops' = Append(ops, Op("update", TRUE))
          /\ upc' = "sleep_2"
          /\ UNCHANGED retryVars
       \/ /\ sheet' \in { sheet, data.val }
          /\ ops' = Append(ops, Op("update", FALSE))
          /\ \E e \in UpdateErrors : UpdateRaises(e)
    /\ UNCHANGED data
    /\ UNCHANGED UpdateIdleVars

\* time.sleep(2), then update() returns None and retry_with_backoff returns it
SettleAfterWrite ==
    /\ upc = "sleep_2"
    /\ ops' = Append(ops, Op("sleep_2", TRUE))
    /\ upc' = "done"
    /\ calls' = calls + 1
    /\ outcomes' = Append(outcomes, [kind |-> "return", value |-> "None"])
    /\ result' = ReturnValue("None")
    /\ rpc' = "succeeded"
    /\ UNCHANGED << max_retries, attempt, last_error, sleeps, raised >>
    /\ UNCHANGED << data, sheet >>
    /\ UNCHANGED UpdateIdleVars

NextUpdate ==
    \/ ClearSheet
    \/ SettleAfterClear
    \/ ValidateData
    \/ WriteSheet
    \/ SettleAfterWrite

SpecUpdate == InitUpdate /\ [][NextUpdate]_vars

----------------------------------------------------------------------------
(* Properties of retry_with_backoff *)

Matches(e, tokens) == Lower(e) \cap tokens # {}

\* an APIError on which handle_google_api_error answers should_retry = True
RetryableApi(o) ==
    /\ o.kind = "APIError"
    /\ handle_google_api_error(o.text, 0, 0).retry

\* w is a value get_backoff_duration can return for this error text and attempt
IsBackoffFor(w, text, att) ==
    \E k \in JitterChoices : w = handle_google_api_error(text, att, k).wait

\* d <= w <= 1.1 * d for d = min(base * 2^att, 300 s)
InBackoffRange(w, base, att) ==
    LET d == Min(base * (2 ^ att), 300) * 1000
    IN  d <= w /\ 10 * w <= 11 * d

\* the base_delay of the class of a retryable error text
ExpectedBase(text) ==
    IF Matches(text, RateLimitTokens) THEN 5
    ELSE IF Matches(text, BackendTokens) THEN 10
    ELSE 5

FailedAt(i) ==
    /\ i = Len(outcomes)
    /\ rpc = "failed"
    /\ raised = outcomes[i]
    /\ calls = i
    /\ Len(sleeps) = i - 1

\* C1: when func fails on its first k invocations with retryable API errors
\* (0 <= k < max_retries) and returns on invocation k+1, the wrapper has returned
\* func's value after exactly k+1 invocations and exactly k sleeps, and the i-th
\* sleep is the backoff computed for that error and the 0-based attempt i.
Thm_C1_SuccessAfterFailures ==
    LET n == Len(outcomes)
    IN  ( /\ n >= 1
          /\ n <= max_retries
          /\ outcomes[n].kind = "return"
          /\ \A i \in 1 .. (n - 1) : RetryableApi(outcomes[i]) )
        => ( /\ rpc = "succeeded"
             /\ result = outcomes[n].value
             /\ calls = n
             /\ Len(sleeps) = n - 1
             /\ \A i \in 1 .. (n - 1) :
                  /\ IsBackoffFor(sleeps[i], outcomes[i].text, i - 1)
                  /\ InBackoffRange(sleeps[i], ExpectedBase(outcomes[i].text), i - 1) )

\* two 429 failures, then a return of "value": slept for attempts 0 and 1
Wit_C1_Two429ThenSuccess ==
    /\ rpc = "succeeded"
    /\ Len(outcomes) = 3
    /\ outcomes[1] = [kind |-> "APIError", text |-> {"429"}]
    /\ outcomes[2] = [kind |-> "APIError", text |-> {"429"}]
    /\ result = "value"
    /\ Len(sleeps) = 2
    /\ InBackoffRange(sleeps[1], 5, 0)
    /\ InBackoffRange(sleeps[2], 5, 1)

\* C2 as stated: an APIError whose text matches 401/403 or 400 ends the call at
\* once: no sleep after it, no further invocation, the error raised.
Cex_C2_AuthOrBadRequestFailsAtOnce ==
    \A i \in 1 .. Len(outcomes) :
        ( /\ outcomes[i].kind = "APIError"
          /\ Matches(outcomes[i].text, AuthTokens \cup BadRequestTokens) )
        => FailedAt(i)

\* C2 amended: an APIError whose text matches 401/403 or 400 and holds no
\* rate-limit or backend token ends the call at once: func was invoked once at
\* that attempt, no sleep follows, the error is raised; on the first attempt the
\* invocation count is 1 and nothing was slept.
Thm_C2_NonRetryableFailsAtOnce ==
    \A i \in 1 .. Len(outcomes) :
        ( /\ outcomes[i].kind = "APIError"
          /\ Matches(outcomes[i].text, AuthTokens \cup BadRequestTokens)
          /\ ~ Matches(outcomes[i].text, RateLimitTokens \cup BackendTokens) )
        => ( /\ FailedAt(i)
             /\ (i = 1 => calls = 1 /\ sleeps = << >>) )

Wit_C2_First401 ==
    /\ max_retries = DefaultMaxRetries
    /\ outcomes = << [kind |-> "APIError", text |-> {"401"}] >>
    /\ rpc = "failed"
    /\ calls = 1
    /\ sleeps = << >>
    /\ raised.text = {"401"}

\* C3: when func fails with a retryable API error on every attempt, the wrapper
\* goes on until func was invoked max_retries times, then has failed with the
\* error of the last attempt after max_retries - 1 sleeps; and no execution
\* invokes func more than max_retries times.
Thm_C3_RetryCeiling ==
    /\ calls <= max_retries
    /\ calls = Len(outcomes)
    /\ (\A i \in 1 .. Len(outcomes) : RetryableApi(outcomes[i]))
       => IF Len(outcomes) < max_retries
          THEN rpc = "attempting" /\ Len(sleeps) = Len(outcomes)
          ELSE /\ rpc = "failed"
               /\ calls = max_retries
               /\ Len(sleeps) = max_retries - 1
               /\ raised = outcomes[max_retries]

Wit_C3_FiveFailures ==
    /\ max_retries = DefaultMaxRetries
    /\ calls = 5
    /\ Len(sleeps) = 4
    /\ rpc = "failed"
    /\ \A i \in 1 .. 5 : RetryableApi(outcomes[i])
    /\ raised = outcomes[5]
    /\ outcomes[4] # outcomes[5]

NoSignal(text) ==
    ~ Matches(text, RateLimitTokens \cup BackendTokens \cup AuthTokens \cup BadRequestTokens)

RetriedWithDefaultBackoff(i) ==
    IF i < max_retries
    THEN Len(sleeps) >= i /\ InBackoffRange(sleeps[i], 5, i - 1)
    ELSE FailedAt(i)

\* C5 as stated: any failure of func whose text matches none of the four
\* signals is retried with the base_delay=5 backoff, up to the retry ceiling.
Cex_C5_AnyUnmatchedFailureRetried ==
    \A i \in 1 .. Len(outcomes) :
        (outcomes[i].kind # "return" /\ NoSignal(outcomes[i].text))
        => RetriedWithDefaultBackoff(i)

\* C5 amended: any APIError of func whose text matches none of the four signals
\* is retried with the base_delay=5 backoff: before the last attempt the wrapper
\* sleeps d..1.1*d, d = min(5 * 2^attempt, 300); on the last attempt it raises.
Thm_C5_UnmatchedApiErrorRetried ==
    \A i \in 1 .. Len(outcomes) :
        (outcomes[i].kind = "APIError" /\ NoSignal(outcomes[i].text))
        => RetriedWithDefaultBackoff(i)

Wit_C5_UnmatchedThenCeiling ==
    /\ max_retries = 3
    /\ Len(outcomes) = 3
    /\ \A i \in 1 .. 3 : outcomes[i] = [kind |-> "APIError", text |-> {}]
    /\ Len(sleeps) = 2
    /\ sleeps[2] > sleeps[1]
    /\ rpc = "failed"

\* C6: an exception of func that is no APIError (SpreadsheetNotFound,
\* WorksheetNotFound, any other Exception) is raised by the wrapper on the
\* attempt where it occurs: no sleep after it and no further invocation.
Thm_C6_UnexpectedReraised ==
    \A i \in 1 .. Len(outcomes) :
        (outcomes[i].kind \notin {"APIError", "return"}) => FailedAt(i)

Wit_C6_WorksheetNotFoundOnThirdAttempt ==
    /\ Len(outcomes) = 3
    /\ outcomes[3].kind = "WorksheetNotFound"
    /\ rpc = "failed"
    /\ raised.kind = "WorksheetNotFound"
    /\ calls = 3
    /\ Len(sleeps) = 2

----------------------------------------------------------------------------
(* Properties of handle_google_api_error and get_backoff_duration *)

Handled == h_call.fn = "handle_google_api_error"

\* C4 as stated: (True, wait) with the base_delay=5 backoff for an error that
\* matches the rate-limit signal, and with the base_delay=10 backoff for an
\* error that matches the backend signal.
Cex_C4_BackendSignalUsesBase10 ==
    Handled =>
        /\ Matches(h_call.e, RateLimitTokens)
           => h_call.ret.retry /\ InBackoffRange(h_call.ret.wait, 5, h_call.attempt)
        /\ Matches(h_call.e, BackendTokens)
           => h_call.ret.retry /\ InBackoffRange(h_call.ret.wait, 10, h_call.attempt)

\* C4 amended: (True, wait) with wait in [d, 1.1*d], d = min(base * 2^attempt, 300),
\* where base = 5 for an error that matches the rate-limit signal (429, quota)
\* and base = 10 for an error that matches the backend signal (500/502/503/504)
\* and not the rate-limit signal.
Thm_C4_HandlerBackoff ==
    Handled =>
        /\ Matches(h_call.e, RateLimitTokens)
           => h_call.ret.retry /\ InBackoffRange(h_call.ret.wait, 5, h_call.attempt)
        /\ (Matches(h_call.e, BackendTokens) /\ ~ Matches(h_call.e, RateLimitTokens))
           => h_call.ret.retry /\ InBackoffRange(h_call.ret.wait, 10, h_call.attempt)

\* a 503 on attempt 2 waits 40 s plus the largest jitter, 4 s
Wit_C4_Backend503 ==
    /\ Handled
    /\ h_call.e = {"503"}
    /\ h_call.attempt = 2
    /\ h_call.ret = [retry |-> TRUE, wait |-> 44000]

\* the delay before jitter of the latest call reached max_delay
Capped(att) == base_delay * (2 ^ att) >= max_delay

----------------------------------------------------------------------------
(* PR records and validate_pr_data *)

\* A PR record is a JSON object: a function from the field names to typed
\* values, Absent for a key the object does not hold.
Absent == [type |-> "absent", val |-> ""]

Val(t, v) == [type |-> t, val |-> v]

Str(v) == Val("str", v)

\* required_fields, in the order of the dict
Fields == << "title", "repository", "number", "state", "createdAt", "updatedAt",
             "checkStatus" >>

\* required_fields[field]: the accepted type, or the tuple of accepted types
AcceptedTypes(field) ==
    IF field = "number" THEN {"int", "str"}
    ELSE IF field = "checkStatus" THEN {"str", "NoneType"}
    ELSE {"str"}

\* isinstance(field_type, tuple)
IsTuple(field) == field \in {"number", "checkStatus"}

\* isinstance(v, t) for one type t; bool is a subclass of int
IsInstance(v, t) == v.type = t \/ (t = "int" /\ v.type = "bool")

\* isinstance(v, field_type), field_type a type or a tuple of types
IsInstanceOf(v, types) == \E t \in types : IsInstance(v, t)

\* s.replace("Z", "+00:00") on the timestamp strings of the model
ReplaceZ(s) ==
    IF s = "2024-01-01T00:00:00Z" THEN "2024-01-01T00:00:00+00:00"
    ELSE IF s = "2024-01-02T00:00:00Z" THEN "2024-01-02T00:00:00+00:00"
    ELSE s

\* datetime.fromisoformat(s) returns (TRUE) or raises ValueError (FALSE)
FromIsoformatOk(s) ==
    s \in {"2024-01-01T00:00:00+00:00", "2024-01-02T00:00:00+00:00",
           "2024-01-01T00:00:00"}

NoReason == [kind |-> "None", what |-> ""]

Reason(kind, what) == [kind |-> kind, what |-> what]

\* a loop body that checks the type before the presence: an absent key reads
\* as a value of no accepted type
CheckField_type_first(pr, field) ==
    IF ~ IsInstanceOf(pr[field], AcceptedTypes(field))
    THEN Reason("Invalid type", field)
    ELSE NoReason

\* the body of the loop over required_fields for one field: the reason to
\* return, or NoReason to go on
CheckField(pr, field) ==
    IF pr[field] = Absent
    THEN Reason("Missing required field", field)
    ELSE IF ~ IsInstanceOf(pr[field], AcceptedTypes(field))
         THEN IF IsTuple(field)
              THEN IF ~ (\E t \in AcceptedTypes(field) : IsInstance(pr[field], t))
                   THEN Reason("Invalid type", field)
                   ELSE NoReason
              ELSE Reason("Invalid type", field)
         ELSE NoReason

\* for field, field_type in required_fields.items(): from the n-th field on
RECURSIVE CheckFields(_, _)
CheckFields(pr, n) ==
    IF n > Len(Fields) THEN NoReason
    ELSE LET r == CheckField(pr, Fields[n])
         IN  IF r # NoReason THEN r ELSE CheckFields(pr, n + 1)

\* validate_pr_data(pr): (is_valid, error_message)
validate_pr_data(pr) ==
    LET r == CheckFields(pr, 1)
    IN  IF r # NoReason
        THEN [valid |-> FALSE, error |-> r]
        ELSE IF pr.state.val \notin {"OPEN", "CLOSED", "MERGED"}
        THEN [valid |-> FALSE, error |-> Reason("Invalid state value", pr.state.val)]
        ELSE IF ~ ( /\ FromIsoformatOk(ReplaceZ(pr.createdAt.val))
                    /\ FromIsoformatOk(ReplaceZ(pr.updatedAt.val)) )
        THEN [valid |-> FALSE, error |-> Reason("Invalid date format", "ValueError")]
        ELSE [valid |-> TRUE, error |-> NoReason]

TitleValues == {Absent, Str("A"), Str("B"), Val("int", "7")}
RepositoryValues == {Absent, Str("o/r"), Val("NoneType", "None")}
NumberValues == {Absent, Val("int", "1"), Str("2"), Val("bool", "True"),
                 Val("NoneType", "None")}
StateValues == {Absent, Str("OPEN"), Str("CLOSED"), Str("MERGED"), Str("APPROVED"),
                Val("int", "3")}
TimestampValues == {Absent, Str("2024-01-01T00:00:00Z"), Str("2024-01-01T00:00:00"),
                    Str("not-a-date"), Val("int", "20240101")}
CheckStatusValues == {Absent, Str("FAILURE"), Str("ERROR"), Str("SUCCESS"),
                      Val("NoneType", "None"), Val("int", "0")}

\* the JSON objects given to validate_pr_data
AllRecords ==
    [ title : TitleValues, repository : RepositoryValues, number : NumberValues,
      state : StateValues, createdAt : TimestampValues, updatedAt : TimestampValues,
      checkStatus : CheckStatusValues ]

InitValidate ==
    /\ IdleBackoff
    /\ IdleHandle
    /\ IdleRetry
    /\ IdleValidate
    /\ IdleProcess

ValidatePR ==
    /\ v_call.fn = "none"
    /\ \E pr \in AllRecords :
         v_call' = [fn |-> "validate_pr_data", pr |-> pr, ret |-> validate_pr_data(pr)]
    /\ UNCHANGED backoffVars
    /\ UNCHANGED h_call
    /\ UNCHANGED retryVars
    /\ UNCHANGED processVars
    /\ UNCHANGED driverVars

NextValidate == ValidatePR

SpecValidate == InitValidate /\ [][NextValidate]_vars

----------------------------------------------------------------------------
(* Properties of validate_pr_data *)

Validated == v_call.fn = "validate_pr_data"

Present(pr, f) == pr[f] # Absent

WellTyped(pr, f) == Present(pr, f) /\ IsInstanceOf(pr[f], AcceptedTypes(f))

AllWellTyped(pr) == \A n \in 1 .. Len(Fields) : WellTyped(pr, Fields[n])

\* the timestamp strings of the model that are ISO-8601, a trailing Z allowed
Parses(v) ==
    v.val \in {"2024-01-01T00:00:00Z", "2024-01-02T00:00:00Z", "2024-01-01T00:00:00"}

StateEnum == {"OPEN", "CLOSED", "MERGED"}

\* C8 as stated, first part: a record that misses a required field is rejected
\* with a 'Missing required field' reason.
Cex_C8_MissingFieldReason ==
    Validated =>
        ( (\E n \in 1 .. Len(Fields) : ~ Present(v_call.pr, Fields[n]))
          => ( /\ ~ v_call.ret.valid
               /\ v_call.ret.error.kind = "Missing required field" ) )

\* C8 amended: a record that misses a required field is rejected, and the
\* reason is 'Missing required field' for its first missing field when every
\* field before it in the schema is present and well-typed (an earlier field of
\* a wrong type is reported instead); a record whose fields are all present and
\* well-typed but whose state is outside OPEN, CLOSED, MERGED is rejected with
\* 'Invalid state value'; a record is accepted exactly when every field is
\* present and of an accepted type, state is in the enum and both timestamps
\* parse.
Thm_C8_ValidationReasons ==
    Validated =>
        LET pr == v_call.pr
            r == v_call.ret
        IN  /\ (\E n \in 1 .. Len(Fields) : ~ Present(pr, Fields[n])) => ~ r.valid
            /\ \A n \in 1 .. Len(Fields) :
                 ( /\ ~ Present(pr, Fields[n])
                   /\ \A m \in 1 .. (n - 1) : WellTyped(pr, Fields[m]) )
                 => r.error = Reason("Missing required field", Fields[n])
            /\ (AllWellTyped(pr) /\ pr.state.val \notin StateEnum)
               => ~ r.valid /\ r.error = Reason("Invalid state value", pr.state.val)
            /\ r.valid <=> ( /\ AllWellTyped(pr)
                             /\ pr.state.val \in StateEnum
                             /\ Parses(pr.createdAt)
                             /\ Parses(pr.updatedAt) )

\* the record of the specification's scenario without its state
Wit_C8_MissingState ==
    /\ Validated
    /\ v_call.pr = [ title |-> Str("A"), repository |-> Str("o/r"),
                     number |-> Val("int", "1"), state |-> Absent,
                     createdAt |-> Str("2024-01-01T00:00:00Z"),
                     updatedAt |-> Str("2024-01-01T00:00:00Z"),
                     checkStatus |-> Str("FAILURE") ]
    /\ v_call.ret = [valid |-> FALSE, error |-> Reason("Missing required field", "state")]

----------------------------------------------------------------------------
(* sanitize_sheet_name; a string is the sequence of its characters *)

\* the longest end of a title of the model
MaxTail == 3

\* max_length=100 of sanitize_sheet_name
DefaultMaxLength == 100
\* the 8 of str(hash(title))[-8:]
HashSuffixLength == 8
\* the 9 of sanitized[:max_length-9]
SuffixRoom == 9

Max(a, b) == IF a >= b THEN a ELSE b

\* the characters of the class [\[\]\\*?/:]
InvalidChars == {"[", "]", "\\", "*", "?", "/", ":"}

\* re.sub(r'[\[\]\\*?/:]', '', title)
RemoveInvalid(title) ==
    LET Kept(c) == c \notin InvalidChars
    IN  SelectSeq(title, Kept)

\* sanitized.replace(' ', '_')
ReplaceSpaces(str) == [n \in 1 .. Len(str) |-> IF str[n] = " " THEN "_" ELSE str[n]]

\* str[:k], k of any sign
SliceTo(str, k) ==
    IF k >= 0 THEN SubSeq(str, 1, Min(k, Len(str)))
    ELSE SubSeq(str, 1, Max(Len(str) + k, 0))

\* str[-k:], k > 0
SliceLast(str, k) ==
    IF Len(str) > k THEN SubSeq(str, Len(str) - k + 1, Len(str)) ELSE str

DigitChars == << "0", "1", "2", "3", "4", "5", "6", "7", "8", "9" >>

RECURSIVE NatText(_)
NatText(n) ==
    IF n < 10 THEN << DigitChars[n + 1] >>
    ELSE Append(NatText(n \div 10), DigitChars[(n % 10) + 1])

\* str(n) of an int
IntText(n) == IF n < 0 THEN << "-" >> \o NatText(0 - n) ELSE NatText(n)

\* sanitize_sheet_name(title, max_length), h the value of hash(title)
sanitize_sheet_name(title, max_length, h) ==
    LET sanitized == ReplaceSpaces(RemoveInvalid(title))
    IN  IF Len(sanitized) > max_length
        THEN SliceTo(sanitized, max_length - SuffixRoom) \o << "_" >>
             \o SliceLast(IntText(h), HashSuffixLength)
        ELSE sanitized

\* the characters of the titles of the model
TitleChars == {"a", " ", "/", "["}

\* n times the character c
Repeat(c, n) == [j \in 1 .. n |-> c]

\* the titles: nothing or DefaultMaxLength - 2 letters, then up to MaxTail
\* characters
Titles ==
    { Repeat("a", n) \o tail :
        n \in {0, DefaultMaxLength - 2},
        tail \in UNION { [1 .. j -> TitleChars] : j \in 0 .. MaxTail } }

\* values of hash(title), a signed 64-bit integer that depends on the hash seed
\* of the process: of ten digits, of fewer than eight, negative, zero; two of
\* them have the same last eight digits
HashValues == {1234567890, 2034567890, -77777777, -1234567, -42, 0}

\* the max_length arguments of the model
MaxLengths == {2, 5, SuffixRoom, DefaultMaxLength}

InitSanitize ==
    /\ IdleBackoff
    /\ IdleHandle
    /\ IdleRetry
    /\ IdleValidate
    /\ IdleProcess

\* one call sanitize_sheet_name(title, max_length)
Sanitize ==
    /\ s_call.fn = "none"
    /\ \E title \in Titles, max_length \in MaxLengths, h \in HashValues :
         s_call' = [ fn |-> "sanitize_sheet_name", title |-> title,
                     max_length |-> max_length, hash |-> h,
                     ret |-> sanitize_sheet_name(title, max_length, h) ]
    /\ UNCHANGED << plugins, hashes >>
    /\ UNCHANGED << argv, aux, mpc, remote, failure, exit_code, flags, summary_data,
                    written, names, ci, prev_run >>
    /\ UNCHANGED << backoffVars, h_call, retryVars, v_call, processVars >>
    /\ UNCHANGED << updateVars, snapshotVars, statsVars >>

NextSanitize == Sanitize

SpecSanitize == InitSanitize /\ [][NextSanitize]_vars

----------------------------------------------------------------------------
(* The sheet names of a run: sanitize_sheet_name(plugin) for the link of each *)
(* plugin in the Summary sheet, then sanitize_sheet_name(title) for the     *)
(* sheet of each cohort                                                     *)

\* titles of cohorts: two short ones, and those just longer than max_length
CohortTitles ==
    { << "a" >>, << "a", "/" >> } \cup { t \in Titles : Len(t) = DefaultMaxLength + 1 }

\* the keys of plugin_stats, which are the titles of grouped_prs: one title or
\* two different ones
PluginLists ==
    { << t >> : t \in CohortTitles }
    \cup { p \in CohortTitles \X CohortTitles : p[1] # p[2] }

HashKnown(memo, title) == \E n \in 1 .. Len(memo) : memo[n].title = title

\* a hash() that may return another value when called again on the same string
HashChoices_unstable(memo, title) == HashValues

\* the values hash(title) can return: the one it returned before in this
\* process, any value for a string not hashed yet
HashChoices(memo, title) ==
    IF HashKnown(memo, title)
    THEN { memo[CHOOSE n \in 1 .. Len(memo) : memo[n].title = title].value }
    ELSE HashValues

Remember(memo, title, h) ==
    IF HashKnown(memo, title) THEN memo ELSE Append(memo, [title |-> title, value |-> h])

\* the call sanitize_sheet_name(title) made at `at` for the next title
SanitizeNext(at) ==
    LET title == plugins[ci + 1]
    IN  IF Len(ReplaceSpaces(RemoveInvalid(title))) > DefaultMaxLength
        THEN \E h \in HashChoices(hashes, title) :
                /\ names' = Append(names, [ at |-> at, title |-> title,
                        name |-> sanitize_sheet_name(title, DefaultMaxLength, h) ])
                /\ hashes' = Remember(hashes, title, h)
        ELSE /\ names' = Append(names, [ at |-> at, title |-> title,
                     name |-> sanitize_sheet_name(title, DefaultMaxLength, 0) ])
             /\ hashes' = hashes

InitNames ==
    /\ IdleBackoff
    /\ IdleHandle
    /\ IdleRetry
    /\ IdleValidate
    /\ file = [kind |-> "none"]
    /\ ppc = "idle"
    /\ prs = << >>
    /\ idx = 0
    /\ valid_prs = << >>
    /\ errors = << >>
    /\ title_groups = << >>
    /\ gi = 0
    /\ ret = [kind |-> "none"]
    /\ argv = [kind |-> "none"]
    /\ aux = [kind |-> "none"]
    /\ mpc = "links"
    /\ remote = << >>
    /\ failure = NoFailure
    /\ exit_code = -1
    /\ flags = [kind |-> "none"]
    /\ summary_data = << >>
    /\ written = << >>
    /\ names = << >>
    /\ ci = 0
    /\ prev_run = [kind |-> "none"]
    /\ s_call = [fn |-> "none"]
    /\ plugins \in PluginLists
    /\ hashes = << >>
    /\ IdleStats
    /\ IdleUpdate
    /\ IdleSnapshot

\* sheet_name = sanitize_sheet_name(plugin) of `for plugin, stats in
\* plugin_stats.items()`
LinkName ==
    /\ mpc = "links"
    /\ ci < Len(plugins)
    /\ SanitizeNext("link")
    /\ IF ci + 1 = Len(plugins)
       THEN mpc' = "sheets" /\ ci' = 0
       ELSE mpc' = mpc /\ ci' = ci + 1
    /\ UNCHANGED << s_call, plugins >>
    /\ UNCHANGED << argv, aux, remote, failure, exit_code, flags, summary_data,
                    written, prev_run >>
    /\ UNCHANGED << backoffVars, h_call, retryVars, v_call, processVars >>
    /\ UNCHANGED << updateVars, snapshotVars, statsVars >>

\* sheet_name = sanitize_sheet_name(title) of `for pr in grouped_prs`
SheetName ==
    /\ mpc = "sheets"
    /\ ci < Len(plugins)
    /\ SanitizeNext("sheet")
    /\ IF ci + 1 = Len(plugins)
       THEN mpc' = "done" /\ ci' = 0
       ELSE mpc' = mpc /\ ci' = ci + 1
    /\ UNCHANGED << s_call, plugins >>
    /\ UNCHANGED << argv, aux, remote, failure, exit_code, flags, summary_data,
                    written, prev_run >>
    /\ UNCHANGED << backoffVars, h_call, retryVars, v_call, processVars >>
    /\ UNCHANGED << updateVars, snapshotVars, statsVars >>

NextNames == LinkName \/ SheetName

SpecNames == InitNames /\ [][NextNames]_vars

----------------------------------------------------------------------------
(* group_prs_by_title and process_consolidated_data *)

\* the longest consolidated list of the model
MaxRecords == 3

PR(title, repository, number, state, createdAt, checkStatus) ==
    [ title |-> title, repository |-> repository, number |-> number,
      state |-> state, createdAt |-> createdAt,
      updatedAt |-> Str("2024-01-02T00:00:00Z"), checkStatus |-> checkStatus ]

Created == Str("2024-01-01T00:00:00Z")

\* the records of the consolidated files of the model: valid ones of three
\* titles, and invalid ones
RecordPool ==
    { PR(Str("A"), Str("o/r"), Val("int", "1"), Str("OPEN"), Created, Str("FAILURE")),
      PR(Str("A"), Str("o/r"), Str("2"), Str("OPEN"), Created, Str("SUCCESS")),
      PR(Str("A"), Str("o/t"), Val("int", "5"), Str("CLOSED"), Created, Str("FAILURE")),
      PR(Str("B"), Str("o/s"), Val("int", "3"), Str("MERGED"), Created,
         Val("NoneType", "None")),
      PR(Str("B"), Str("o/s"), Val("int", "4"), Str("OPEN"), Created, Str("ERROR")),
      PR(Str("C"), Str("o/u"), Val("int", "6"), Str("CLOSED"), Created, Str("SUCCESS")),
      PR(Str("A"), Str("o/r"), Val("int", "1"), Absent, Created, Str("FAILURE")),
      PR(Str("B"), Str("o/s"), Val("int", "3"), Str("APPROVED"), Created, Str("ERROR")),
      PR(Str("C"), Str("o/u"), Val("int", "6"), Str("OPEN"), Str("not-a-date"),
         Str("FAILURE")),
      PR(Val("int", "7"), Str("o/r"), Str("2"), Str("OPEN"), Created, Str("ERROR")) }

RecordLists == UNION { [1 .. n -> RecordPool] : n \in 0 .. MaxRecords }

\* what open() and json.load() find at consolidated_file
Files ==
    { [kind |-> "FileNotFoundError", value |-> << >>],
      [kind |-> "JSONDecodeError", value |-> << >>],
      [kind |-> "object", value |-> << >>] }
    \cup { [kind |-> "list", value |-> l] : l \in RecordLists }

\* the index in title_groups of the group of this title, 0 when there is none
GroupIndex(groups, title) ==
    IF \E n \in 1 .. Len(groups) : groups[n].title = title
    THEN CHOOSE n \in 1 .. Len(groups) : groups[n].title = title
    ELSE 0

NewGroup(title) == [title |-> title, prs |-> << >>, open |-> 0, closed |-> 0, merged |-> 0]

\* a tally that counts a merged record as a closed one
AddToGroup_merged_as_closed(group, pr) ==
    [ group EXCEPT
        !.prs = Append(@, pr),
        !.open = IF pr.state.val = "OPEN" THEN @ + 1 ELSE @,
        !.closed = IF pr.state.val \in {"CLOSED", "MERGED"} THEN @ + 1 ELSE @ ]

\* group["prs"].append(pr) and the if/elif chain on pr["state"]
AddToGroup(group, pr) ==
    [ group EXCEPT
        !.prs = Append(@, pr),
        !.open = IF pr.state.val = "OPEN" THEN @ + 1 ELSE @,
        !.closed = IF pr.state.val = "CLOSED" THEN @ + 1 ELSE @,
        !.merged = IF pr.state.val = "MERGED" THEN @ + 1 ELSE @ ]

\* a loop body that puts the group of a new title before the others
GroupStep_new_group_first(groups, pr) ==
    LET title == pr.title.val
        groups1 == IF GroupIndex(groups, title) = 0
                   THEN << NewGroup(title) >> \o groups
                   ELSE groups
        n == GroupIndex(groups1, title)
    IN  [groups1 EXCEPT ![n] = AddToGroup(groups1[n], pr)]

\* a loop body that starts a new group for every record
GroupStep_always_new(groups, pr) ==
    Append(groups, AddToGroup(NewGroup(pr.title.val), pr))

\* the body of the loop of group_prs_by_title; title_groups is a dict, kept
\* here as the sequence of its values in insertion order
GroupStep(groups, pr) ==
    LET title == pr.title.val
        groups1 == IF GroupIndex(groups, title) = 0
                   THEN Append(groups, NewGroup(title))
                   ELSE groups
        n == GroupIndex(groups1, title)
    IN  [groups1 EXCEPT ![n] = AddToGroup(groups1[n], pr)]

\* f"https://github.com/{pr['repository']}/pull/{pr['number']}"
PullUrl(pr) == "https://github.com/" \o pr.repository.val \o "/pull/" \o pr.number.val

FailingEntry(pr) ==
    [title |-> pr.title.val, url |-> PullUrl(pr), status |-> pr.checkStatus.val]

\* a filter that does not look at the state
IsFailing_any_state(pr) == pr.checkStatus.val \in {"ERROR", "FAILURE"}

IsFailing(pr) ==
    pr.state.val = "OPEN" /\ pr.checkStatus.val \in {"ERROR", "FAILURE"}

\* the list comprehension over valid_prs
RECURSIVE FailingOf(_)
FailingOf(valid) ==
    IF valid = << >> THEN << >>
    ELSE IF IsFailing(Head(valid))
         THEN << FailingEntry(Head(valid)) >> \o FailingOf(Tail(valid))
         ELSE FailingOf(Tail(valid))

\* an errors entry that counts the records from 1
ErrorEntry_one_based(n, error) == [index |-> n + 1, reason |-> error]

\* f"PR at index {i}: {error}", i the 0-based index of enumerate
ErrorEntry(n, error) == [index |-> n, reason |-> error]

Returned(grouped, failing, errs) ==
    [kind |-> "return", grouped_prs |-> grouped, failing_prs |-> failing, errors |-> errs]

None == [kind |-> "None"]

Init ==
    /\ IdleBackoff
    /\ IdleHandle
    /\ IdleRetry
    /\ IdleValidate
    /\ file \in Files
    /\ ppc = "open"
    /\ prs = << >>
    /\ idx = 0
    /\ valid_prs = << >>
    /\ errors = << >>
    /\ title_groups = << >>
    /\ gi = 0
    /\ ret = [kind |-> "none"]
    /\ IdleDriver

\* with open(consolidated_file) as f: prs = json.load(f), and the list test
LoadFile ==
    /\ ppc = "open"
    /\ IF file.kind = "FileNotFoundError"
       THEN /\ ret' = Returned(None, None, << "File not found." >>)
            /\ ppc' = "returned"
            /\ prs' = prs
       ELSE IF file.kind = "JSONDecodeError"
       THEN /\ ret' = Returned(None, None, << "Error decoding." >>)
            /\ ppc' = "returned"
            /\ prs' = prs
       ELSE IF file.kind # "list"
       THEN /\ ret' = Returned(None, None, << "Consolidated data must be a list of PRs." >>)
            /\ ppc' = "returned"
            /\ prs' = prs
       ELSE /\ prs' = file.value
            /\ ppc' = "validate"
            /\ ret' = ret
    /\ UNCHANGED << file, idx, valid_prs, errors, title_groups, gi >>
    /\ UNCHANGED << backoffVars, h_call, retryVars, v_call, driverVars >>

\* one iteration of `for i, pr in enumerate(prs)`
ValidateStep ==
    /\ ppc = "validate"
    /\ idx < Len(prs)
    /\ LET pr == prs[idx + 1]
           v == validate_pr_data(pr)
       IN  IF v.valid
           THEN /\ valid_prs' = Append(valid_prs, pr)
                /\ errors' = errors
           ELSE /\ errors' = Append(errors, ErrorEntry(idx, v.error))
                /\ valid_prs' = valid_prs
    /\ idx' = idx + 1
    /\ UNCHANGED << file, ppc, prs, title_groups, gi, ret >>
    /\ UNCHANGED << backoffVars, h_call, retryVars, v_call, driverVars >>

\* the end of the validation loop: if not valid_prs: return, else
\* group_prs_by_title(valid_prs) starts with title_groups = {}
ValidateDone ==
    /\ ppc = "validate"
    /\ idx = Len(prs)
    /\ IF valid_prs = << >>
       THEN /\ ret' = Returned(None, None, << "No valid PRs found in consolidated data." >>)
            /\ ppc' = "returned"
       ELSE /\ ppc' = "group"
            /\ ret' = ret
    /\ UNCHANGED << title_groups, gi >>
    /\ UNCHANGED << file, prs, idx, valid_prs, errors >>
    /\ UNCHANGED << backoffVars, h_call, retryVars, v_call, driverVars >>

\* one iteration of `for pr in prs` of group_prs_by_title
GroupNext ==
    /\ ppc = "group"
    /\ gi < Len(valid_prs)
    /\ title_groups' = GroupStep(title_groups, valid_prs[gi + 1])
    /\ gi' = gi + 1
    /\ UNCHANGED << file, ppc, prs, idx, valid_prs, errors, ret >>
    /\ UNCHANGED << backoffVars, h_call, retryVars, v_call, driverVars >>

\* return list(title_groups.values()); the failing_prs comprehension; return
GroupDone ==
    /\ ppc = "group"
    /\ gi = Len(valid_prs)
    /\ ret' = Returned(title_groups, FailingOf(valid_prs), errors)
    /\ ppc' = "returned"
    /\ UNCHANGED << file, prs, idx, valid_prs, errors, title_groups, gi >>
    /\ UNCHANGED << backoffVars, h_call, retryVars, v_call, driverVars >>

Next == LoadFile \/ ValidateStep \/ ValidateDone \/ GroupNext \/ GroupDone

Spec == Init /\ [][Next]_vars

----------------------------------------------------------------------------
(* group_prs_by_title on its own, given any list of records it can read *)

\* the records of which pr["title"] and pr["state"] exist, validated or not
GroupableRecords == { r \in RecordPool : r.title # Absent /\ r.state # Absent }

GroupInputs == UNION { [1 .. n -> GroupableRecords] : n \in 0 .. MaxRecords }

\* group_prs_by_title(prs): the argument is held by valid_prs
InitGroup ==
    /\ IdleBackoff
    /\ IdleHandle
    /\ IdleRetry
    /\ IdleValidate
    /\ file = [kind |-> "none"]
    /\ ppc = "group"
    /\ prs = << >>
    /\ idx = 0
    /\ valid_prs \in GroupInputs
    /\ errors = << >>
    /\ title_groups = << >>
    /\ gi = 0
    /\ ret = [kind |-> "none"]
    /\ IdleDriver

\* return list(title_groups.values())
GroupReturn ==
    /\ ppc = "group"
    /\ gi = Len(valid_prs)
    /\ ret' = [kind |-> "groups", value |-> title_groups]
    /\ ppc' = "returned"
    /\ UNCHANGED << file, prs, idx, valid_prs, errors, title_groups, gi >>
    /\ UNCHANGED << backoffVars, h_call, retryVars, v_call, driverVars >>

NextGroup == GroupNext \/ GroupReturn

SpecGroup == InitGroup /\ [][NextGroup]_vars

----------------------------------------------------------------------------
(* Main execution: the arguments, the consolidated file, the auxiliary files *)

\* FAILING_PRS_ERROR = sys.argv[2].lower() == 'true' and
\* FORCE_UPDATE = len(sys.argv) > 3 and sys.argv[3].lower() == 'true'
Argvs == [FAILING_PRS_ERROR : BOOLEAN, FORCE_UPDATE : BOOLEAN]

\* the records of the consolidated files given to the main execution: open
\* records of three check statuses, and an invalid one
MainPool ==
    { PR(Str("A"), Str("o/r"), Val("int", "1"), Str("OPEN"), Created, Str("FAILURE")),
      PR(Str("A"), Str("o/r"), Str("2"), Str("OPEN"), Created, Str("SUCCESS")),
      PR(Str("B"), Str("o/s"), Val("int", "4"), Str("OPEN"), Created, Str("ERROR")),
      PR(Str("B"), Str("o/s"), Val("int", "3"), Str("APPROVED"), Created, Str("ERROR")) }

MainFiles ==
    { [kind |-> "FileNotFoundError", value |-> << >>],
      [kind |-> "JSONDecodeError", value |-> << >>],
      [kind |-> "object", value |-> << >>] }
    \cup { [kind |-> "list", value |-> l] :
             l \in UNION { [1 .. n -> MainPool] : n \in 0 .. MaxRecords } }

\* the numbers of records that process_successful_builds_data and
\* process_test_results_data find (none when the file is absent or empty), and
\* whether the spreadsheet has the Local Build worksheets, so that
\* get_worksheet_id_with_retry returns an id
AuxFiles == [builds : {0, 2}, passed : {0, 2}, failed : {0, 2}, sheet_ids : BOOLEAN]

\* the call process_consolidated_data(CONSOLIDATED_FILE) is about to run
StartProcess ==
    /\ ppc = "open"
    /\ prs = << >>
    /\ idx = 0
    /\ valid_prs = << >>
    /\ errors = << >>
    /\ title_groups = << >>
    /\ gi = 0
    /\ ret = [kind |-> "none"]

InitMain ==
    /\ IdleBackoff
    /\ IdleHandle
    /\ IdleRetry
    /\ IdleValidate
    /\ file \in MainFiles
    /\ StartProcess
    /\ argv \in Argvs
    /\ aux \in AuxFiles
    /\ mpc = "process"
    /\ remote = << >>
    /\ failure = NoFailure
    /\ exit_code = -1
    /\ flags = [kind |-> "none"]
    /\ summary_data = << >>
    /\ written = << >>
    /\ names = << >>
    /\ ci = 0
    /\ prev_run = [kind |-> "none"]
    /\ IdleSanitize
    /\ IdleStats
    /\ IdleUpdate
    /\ IdleSnapshot

----------------------------------------------------------------------------
(* Main execution after process_consolidated_data: the sections of the     *)
(* script in their order. A remote call, or the remote calls of one try    *)
(* block, end well, with an APIError (the terminal failure of              *)
(* retry_with_backoff, or of a call made without it) or with another       *)
(* exception.                                                              *)

Outcomes == {"ok", "APIError", "Exception"}

\* the variables the sections leave as they are
settledVars == << backoffVars, h_call, retryVars, v_call, processVars, sanitizeVars,
                 updateVars, snapshotVars, argv, aux, prev_run >>

\* `if errors:`: errors is one message on the paths that return before
\* grouping (valid_prs is empty on each of them), else the diagnostics
SomeErrors == valid_prs = << >> \/ errors # << >>

\* `not grouped_prs`: grouped_prs is None on the paths that return before
\* grouping, else the cohorts of the valid records, at least one
NoGroupedPrs == valid_prs = << >>

\* a driver for which any error is fatal
IsFatal_any_error(some_errors, no_grouped_prs) == some_errors

\* if errors: ... if not grouped_prs: sys.exit(1)
IsFatal(some_errors, no_grouped_prs) == some_errors /\ no_grouped_prs

\* the first failure of a remote call of the run
Failed(call, outcome) ==
    IF failure = NoFailure THEN [at |-> call, kind |-> outcome] ELSE failure

\* a remote call outside any try block: an exception ends the process
Propagating(call, next) ==
    /\ remote' = Append(remote, call)
    /\ \E outcome \in Outcomes :
         IF outcome = "ok"
         THEN /\ mpc' = next
              /\ UNCHANGED << failure, exit_code >>
         ELSE /\ failure' = Failed(call, outcome)
              /\ mpc' = "exited"
              /\ exit_code' = 1

\* the remote calls of a try block whose except clause logs the exceptions of
\* the kinds `caught` and lets the script go on
Absorbing(call, next, caught) ==
    /\ remote' = Append(remote, call)
    /\ \E outcome \in Outcomes :
         IF outcome = "ok"
         THEN /\ mpc' = next
              /\ UNCHANGED << failure, exit_code >>
         ELSE IF outcome \in caught
         THEN /\ failure' = Failed(call, outcome)
              /\ mpc' = next
              /\ exit_code' = exit_code
         ELSE /\ failure' = Failed(call, outcome)
              /\ mpc' = "exited"
              /\ exit_code' = 1

Row(label, count) == [row |-> label, count |-> count]

RECURSIVE TotalPrs(_)
TotalPrs(groups) ==
    IF groups = << >> THEN 0 ELSE Len(Head(groups).prs) + TotalPrs(Tail(groups))

\* the errors are logged; sys.exit(1) when they are fatal
CheckErrors ==
    /\ mpc = "process"
    /\ ppc = "returned"
    /\ IF IsFatal(SomeErrors, NoGroupedPrs)
       THEN mpc' = "exited" /\ exit_code' = 1
       ELSE mpc' = "connect" /\ exit_code' = exit_code
    /\ UNCHANGED << remote, failure, flags, summary_data, written, names, ci >>
    /\ UNCHANGED settledVars
    /\ UNCHANGED statsVars

\* client.open("Jenkins PR Tracker"), the first remote call
OpenSpreadsheet ==
    /\ mpc = "connect"
    /\ Propagating("open", "summary_sheet")
    /\ UNCHANGED << flags, summary_data, written, names, ci >>
    /\ UNCHANGED settledVars
    /\ UNCHANGED statsVars

\* spreadsheet.worksheet("Summary") or add_worksheet
GetSummarySheet ==
    /\ mpc = "summary_sheet"
    /\ Propagating("worksheet Summary", "totals")
    /\ UNCHANGED << flags, summary_data, written, names, ci >>
    /\ UNCHANGED settledVars
    /\ UNCHANGED statsVars

RECURSIVE SumOf(_, _)
\* the value of `x += pr[counter]` over `for pr in grouped_prs`, from x = 0
SumOf(groups, counter) ==
    IF groups = << >> THEN 0 ELSE Head(groups)[counter] + SumOf(Tail(groups), counter)

\* totals that count every record as open
Totals_all_open(groups) ==
    [ total_prs |-> TotalPrs(groups), open_prs |-> TotalPrs(groups),
      closed_prs |-> 0, merged_prs |-> 0 ]

\* total_prs += len(prs); open_prs += pr["open"]; closed_prs += pr["closed"];
\* merged_prs += pr["merged"]
Totals(groups) ==
    [ total_prs |-> TotalPrs(groups), open_prs |-> SumOf(groups, "open"),
      closed_prs |-> SumOf(groups, "closed"), merged_prs |-> SumOf(groups, "merged") ]

\* stats[title] = entry on a dict kept in insertion order
SetStats(stats, entry) ==
    IF \E n \in 1 .. Len(stats) : stats[n].title = entry.title
    THEN [ n \in 1 .. Len(stats) |->
             IF stats[n].title = entry.title THEN entry ELSE stats[n] ]
    ELSE Append(stats, entry)

RECURSIVE StatsFrom(_, _)
StatsFrom(stats, groups) ==
    IF groups = << >> THEN stats
    ELSE LET pr == Head(groups)
         IN  StatsFrom(SetStats(stats, [ title |-> pr.title, total |-> Len(pr.prs),
                                         open |-> pr.open, closed |-> pr.closed,
                                         merged |-> pr.merged ]),
                       Tail(groups))

\* plugin_stats after `for pr in grouped_prs`
PluginStats(groups) == StatsFrom(<< >>, groups)

\* the totals over grouped_prs, the has_* flags set to False and the first
\* rows of summary_data
SummaryTotals ==
    /\ mpc = "totals"
    /\ flags' = [ has_successful_local_builds |-> FALSE, has_tests_passed |-> FALSE,
                  has_tests_failed |-> FALSE ]
    /\ totals' = Totals(ret.grouped_prs)
    /\ plugin_stats' = PluginStats(ret.grouped_prs)
    /\ summary_data' = << Row("Total PRs", totals'.total_prs),
                          Row("Open PRs", totals'.open_prs),
                          Row("Closed PRs", totals'.closed_prs),
                          Row("Merged PRs", totals'.merged_prs) >>
    /\ mpc' = "sections"
    /\ UNCHANGED << remote, failure, exit_code, written, names, ci >>
    /\ UNCHANGED settledVars

\* the three `if has_...:` blocks that add the Local Build sections: each asks
\* get_worksheet_id_with_retry for the id of its sheet (None on any error) and,
\* given an id, reads the count of its section, which is assigned further down
\* only (NameError); then the header of the plugin statistics
SummarySections ==
    /\ mpc = "sections"
    /\ LET Ask(flag, call) == IF flag THEN << call >> ELSE << >>
           asked == Ask(flags.has_successful_local_builds, "id Local Build Success")
                    \o Ask(flags.has_tests_passed, "id Local Build Tests Pass")
                    \o Ask(flags.has_tests_failed, "id Local Build Tests Fail")
       IN  IF asked # << >> /\ aux.sheet_ids
           THEN /\ remote' = Append(remote, asked[1])
                /\ mpc' = "exited"
                /\ exit_code' = 1
                /\ summary_data' = summary_data
           ELSE /\ remote' = remote \o asked
                /\ mpc' = "links"
                /\ exit_code' = exit_code
                /\ summary_data' = Append(summary_data, Row("Plugin-Specific Statistics", 0))
    /\ UNCHANGED << failure, flags, written, names, ci >>
    /\ UNCHANGED settledVars
    /\ UNCHANGED statsVars

\* one iteration of `for plugin, stats in plugin_stats.items()`:
\* spreadsheet.worksheet(sheet_name) or add_worksheet, and the row of the plugin
PluginLink ==
    /\ mpc = "links"
    /\ ci < Len(ret.grouped_prs)
    /\ LET group == ret.grouped_prs[ci + 1]
       IN  /\ Propagating("worksheet " \o group.title,
                          IF ci + 1 = Len(ret.grouped_prs) THEN "aux" ELSE "links")
           /\ summary_data' = IF mpc' = "exited" THEN summary_data
                              ELSE Append(summary_data, Row(group.title, Len(group.prs)))
    /\ ci' = IF mpc' = "links" THEN ci + 1 ELSE 0
    /\ UNCHANGED << flags, written, names >>
    /\ UNCHANGED settledVars
    /\ UNCHANGED statsVars

\* process_successful_builds_data, process_test_results_data and the
\* assignments of the has_* flags; FORCE_UPDATE sets the two test flags
ReadAuxFiles ==
    /\ mpc = "aux"
    /\ flags' = [ has_successful_local_builds |-> aux.builds > 0,
                  has_tests_passed |-> aux.passed > 0 \/ argv.FORCE_UPDATE,
                  has_tests_failed |-> aux.failed > 0 \/ argv.FORCE_UPDATE ]
    /\ mpc' = "builds_sheet"
    /\ UNCHANGED << remote, failure, exit_code, summary_data, written, names, ci >>
    /\ UNCHANGED settledVars
    /\ UNCHANGED statsVars

\* the Local Build Success sheet, written when there are successful builds and
\* their file has changed or FORCE_UPDATE; its try block logs any Exception
BuildsSheet ==
    /\ mpc = "builds_sheet"
    /\ \E successful_builds_changed \in BOOLEAN :
         IF aux.builds > 0 /\ (successful_builds_changed \/ argv.FORCE_UPDATE)
         THEN Absorbing("sheet Local Build Success", "pass_sheet", {"APIError", "Exception"})
         ELSE /\ mpc' = "pass_sheet"
              /\ UNCHANGED << remote, failure, exit_code >>
    /\ UNCHANGED << flags, summary_data, written, names, ci >>
    /\ UNCHANGED settledVars
    /\ UNCHANGED statsVars

\* the Local Build Tests Pass sheet; its try block logs any Exception
TestsPassSheet ==
    /\ mpc = "pass_sheet"
    /\ IF flags.has_tests_passed /\ argv.FORCE_UPDATE
       THEN Absorbing("sheet Local Build Tests Pass", "fail_sheet", {"APIError", "Exception"})
       ELSE /\ mpc' = "fail_sheet"
            /\ UNCHANGED << remote, failure, exit_code >>
    /\ UNCHANGED << flags, summary_data, written, names, ci >>
    /\ UNCHANGED settledVars
    /\ UNCHANGED statsVars

\* the Local Build Tests Fail sheet; its try block logs any Exception
TestsFailSheet ==
    /\ mpc = "fail_sheet"
    /\ IF flags.has_tests_failed /\ argv.FORCE_UPDATE
       THEN Absorbing("sheet Local Build Tests Fail", "write_summary", {"APIError", "Exception"})
       ELSE /\ mpc' = "write_summary"
            /\ UNCHANGED << remote, failure, exit_code >>
    /\ UNCHANGED << flags, summary_data, written, names, ci >>
    /\ UNCHANGED settledVars
    /\ UNCHANGED statsVars

\* update_sheet_with_retry(summary_sheet, summary_data)
WriteSummary ==
    /\ mpc = "write_summary"
    /\ Propagating("update Summary", "format_summary")
    /\ written' = IF mpc' = "exited" THEN written ELSE Append(written, summary_data)
    /\ UNCHANGED << flags, summary_data, names, ci >>
    /\ UNCHANGED settledVars
    /\ UNCHANGED statsVars

\* spreadsheet.worksheets(), reorder_worksheets and format_sheet_with_retry
FormatSummary ==
    /\ mpc = "format_summary"
    /\ Propagating("format Summary", "failing_sheet")
    /\ UNCHANGED << flags, summary_data, written, names, ci >>
    /\ UNCHANGED settledVars
    /\ UNCHANGED statsVars

\* the Failing PRs sheet, when failing_prs is not empty
FailingSheet ==
    /\ mpc = "failing_sheet"
    /\ IF ret.failing_prs # << >>
       THEN Propagating("sheet Failing PRs", "write_again")
       ELSE /\ mpc' = "write_again"
            /\ UNCHANGED << remote, failure, exit_code >>
    /\ UNCHANGED << flags, summary_data, written, names, ci >>
    /\ UNCHANGED settledVars
    /\ UNCHANGED statsVars

\* the Failing PRs row and the second update_sheet_with_retry(summary_sheet,
\* summary_data)
WriteSummaryAgain ==
    /\ mpc = "write_again"
    /\ summary_data' = Append(summary_data, Row("Failing PRs", Len(ret.failing_prs)))
    /\ Propagating("update Summary", "cohorts")
    /\ written' = IF mpc' = "exited" THEN written ELSE Append(written, summary_data')
    /\ UNCHANGED << flags, names, ci >>
    /\ UNCHANGED settledVars
    /\ UNCHANGED statsVars

\* one iteration of `for pr in grouped_prs`: the sheet of the cohort, in a try
\* block whose except clause logs an APIError and continues
CohortSheet ==
    /\ mpc = "cohorts"
    /\ ci < Len(ret.grouped_prs)
    /\ Absorbing("sheet " \o ret.grouped_prs[ci + 1].title,
                 IF ci + 1 = Len(ret.grouped_prs) THEN "done" ELSE "cohorts",
                 {"APIError"})
    /\ ci' = IF mpc' = "cohorts" THEN ci + 1 ELSE 0
    /\ UNCHANGED << flags, summary_data, written, names >>
    /\ UNCHANGED settledVars
    /\ UNCHANGED statsVars

\* the end of the script
Finish ==
    /\ mpc = "done"
    /\ mpc' = "exited"
    /\ exit_code' = 0
    /\ UNCHANGED << remote, failure, flags, summary_data, written, names, ci >>
    /\ UNCHANGED settledVars
    /\ UNCHANGED statsVars

NextMain ==
    \/ LoadFile \/ ValidateStep \/ ValidateDone \/ GroupNext \/ GroupDone
    \/ CheckErrors \/ OpenSpreadsheet \/ GetSummarySheet \/ SummaryTotals
    \/ SummarySections \/ PluginLink \/ ReadAuxFiles \/ BuildsSheet
    \/ TestsPassSheet \/ TestsFailSheet \/ WriteSummary \/ FormatSummary
    \/ FailingSheet \/ WriteSummaryAgain \/ CohortSheet \/ Finish

SpecMain == InitMain /\ [][NextMain]_vars

----------------------------------------------------------------------------
(* The main execution up to the totals of the summary, on records of every  *)
(* state                                                                    *)

\* records of the three states and an invalid one
TotalsPool ==
    { PR(Str("A"), Str("o/r"), Val("int", "1"), Str("OPEN"), Created, Str("FAILURE")),
      PR(Str("A"), Str("o/r"), Val("int", "2"), Str("CLOSED"), Created, Str("FAILURE")),
      PR(Str("B"), Str("o/s"), Val("int", "3"), Str("MERGED"), Created, Str("SUCCESS")),
      PR(Str("B"), Str("o/s"), Val("int", "4"), Str("OPEN"), Created, Str("SUCCESS")),
      PR(Str("A"), Str("o/r"), Val("int", "5"), Str("APPROVED"), Created, Str("ERROR")) }

TotalsFiles ==
    { [kind |-> "list", value |-> l] :
        l \in UNION { [1 .. n -> TotalsPool] : n \in 0 .. MaxRecords } }

InitTotals ==
    /\ IdleBackoff
    /\ IdleHandle
    /\ IdleRetry
    /\ IdleValidate
    /\ file \in TotalsFiles
    /\ StartProcess
    /\ argv \in Argvs
    /\ aux = [builds |-> 0, passed |-> 0, failed |-> 0, sheet_ids |-> TRUE]
    /\ mpc = "process"
    /\ remote = << >>
    /\ failure = NoFailure
    /\ exit_code = -1
    /\ flags = [kind |-> "none"]
    /\ summary_data = << >>
    /\ written = << >>
    /\ names = << >>
    /\ ci = 0
    /\ prev_run = [kind |-> "none"]
    /\ IdleSanitize
    /\ IdleStats
    /\ IdleUpdate
    /\ IdleSnapshot

NextTotals ==
    \/ LoadFile \/ ValidateStep \/ ValidateDone \/ GroupNext \/ GroupDone
    \/ CheckErrors \/ OpenSpreadsheet \/ GetSummarySheet \/ SummaryTotals

SpecTotals == InitTotals /\ [][NextTotals]_vars

----------------------------------------------------------------------------
(* Two runs on the same consolidated file, the second with the other value *)
(* of the failing-PRs argument                                             *)

\* process_consolidated_data has returned: its failing_prs is kept, and the
\* program is run again on the same file with the other sys.argv[2]
RunAgain ==
    /\ mpc = "process"
    /\ ppc = "returned"
    /\ prev_run.kind = "none"
    /\ prev_run' = [kind |-> "run", argv |-> argv, failing_prs |-> ret.failing_prs]
    /\ argv' = [argv EXCEPT !.FAILING_PRS_ERROR = ~ @]
    /\ ppc' = "open"
    /\ prs' = << >>
    /\ idx' = 0
    /\ valid_prs' = << >>
    /\ errors' = << >>
    /\ title_groups' = << >>
    /\ gi' = 0
    /\ ret' = [kind |-> "none"]
    /\ UNCHANGED << file, aux, mpc, remote, failure, exit_code, flags, summary_data,
                    written, names, ci, sanitizeVars >>
    /\ UNCHANGED << backoffVars, h_call, retryVars, v_call >>
    /\ UNCHANGED << updateVars, snapshotVars, statsVars >>

NextFlag == LoadFile \/ ValidateStep \/ ValidateDone \/ GroupNext \/ GroupDone \/ RunAgain

SpecFlag == InitMain /\ [][NextFlag]_vars

----------------------------------------------------------------------------
(* Properties of process_consolidated_data and group_prs_by_title *)

\* a record that meets the schema, the state enum and the timestamp format
IsValidRecord(pr) ==
    /\ AllWellTyped(pr)
    /\ pr.state.val \in StateEnum
    /\ Parses(pr.createdAt)
    /\ Parses(pr.updatedAt)

\* the valid records among the first n of l, in their order
RECURSIVE ValidAmong(_, _)
ValidAmong(l, n) ==
    IF n = 0 THEN << >>
    ELSE IF IsValidRecord(l[n])
         THEN Append(ValidAmong(l, n - 1), l[n])
         ELSE ValidAmong(l, n - 1)

\* the 0-based positions of the invalid records among the first n of l
RECURSIVE InvalidPositions(_, _)
InvalidPositions(l, n) ==
    IF n = 0 THEN << >>
    ELSE IF IsValidRecord(l[n])
         THEN InvalidPositions(l, n - 1)
         ELSE Append(InvalidPositions(l, n - 1), n - 1)

\* C9: after the first idx records of the input were validated, valid_prs holds
\* the valid ones among them in their input order, errors holds one (index,
\* reason) entry per invalid one, index being its 0-based position in the input
\* and reason what validate_pr_data says of it, every such record is in exactly
\* one of the two, and the input list and its records are as they were read.
Thm_C9_ValidationSplit ==
    (ppc \in {"validate", "group", "returned"} /\ file.kind = "list") =>
        LET bad == InvalidPositions(prs, idx)
        IN  /\ prs = file.value
            /\ valid_prs = ValidAmong(prs, idx)
            /\ Len(errors) = Len(bad)
            /\ \A n \in 1 .. Len(bad) :
                 /\ errors[n].index = bad[n]
                 /\ errors[n].reason = validate_pr_data(prs[bad[n] + 1]).error
            /\ Len(valid_prs) + Len(errors) = idx
            /\ ppc # "validate" => idx = Len(prs)

\* a valid record, an invalid one, a valid one: one diagnostic, of index 1
Wit_C9_InvalidInTheMiddle ==
    /\ ppc = "returned"
    /\ Len(prs) = 3
    /\ valid_prs = << prs[1], prs[3] >>
    /\ prs[1] # prs[3]
    /\ errors = << [index |-> 1, reason |-> Reason("Invalid state value", "APPROVED")] >>
    /\ ret.errors = errors

\* the members of recs of this title, in their order
WithTitle(recs, title) ==
    LET HasTitle(r) == r.title.val = title
    IN  SelectSeq(recs, HasTitle)

RECURSIVE MemberCount(_)
MemberCount(groups) ==
    IF groups = << >> THEN 0
    ELSE Len(Head(groups).prs) + MemberCount(Tail(groups))

\* groups is a partition of the records recs by title
PartitionByTitle(groups, recs) ==
    /\ \A n \in 1 .. Len(groups) :
         /\ groups[n].prs # << >>
         /\ groups[n].prs = WithTitle(recs, groups[n].title)
    /\ \A n, m \in 1 .. Len(groups) : groups[n].title = groups[m].title => n = m
    /\ \A j \in 1 .. Len(recs) :
         \E n \in 1 .. Len(groups) : groups[n].title = recs[j].title.val
    /\ MemberCount(groups) = Len(recs)

\* C10: the cohorts of group_prs_by_title are a partition of the valid records:
\* each record is a member of the one cohort of its title, each cohort holds
\* exactly the input records of its title, none is empty, and the member counts
\* add up to the number of records; so it is after every iteration for the
\* records grouped so far, and for the returned list.
Thm_C10_GroupingIsPartition ==
    /\ ppc = "group" => PartitionByTitle(title_groups, SubSeq(valid_prs, 1, gi))
    /\ (ppc = "returned" /\ valid_prs # << >>)
       => PartitionByTitle(ret.grouped_prs, valid_prs)

\* three valid records of titles A, B, A: cohort A with two members, cohort B
Wit_C10_TwoCohorts ==
    /\ ppc = "returned"
    /\ Len(valid_prs) = 3
    /\ valid_prs[1] # valid_prs[3]
    /\ Len(ret.grouped_prs) = 2
    /\ ret.grouped_prs[1].title = "A"
    /\ ret.grouped_prs[1].prs = << valid_prs[1], valid_prs[3] >>
    /\ ret.grouped_prs[2].prs = << valid_prs[2] >>

\* the number of records of recs whose state is s
CountState(recs, s) ==
    LET HasState(r) == r.state.val = s
    IN  Len(SelectSeq(recs, HasState))

\* the counters of a cohort are the tallies of its members' states
TalliesStates(group) ==
    /\ group.open = CountState(group.prs, "OPEN")
    /\ group.closed = CountState(group.prs, "CLOSED")
    /\ group.merged = CountState(group.prs, "MERGED")

\* the cohorts' counters tally the states, and add up to the member count less
\* the members whose state is none of the three
CohortsTally(groups) ==
    \A n \in 1 .. Len(groups) :
        LET g == groups[n]
            others == { j \in 1 .. Len(g.prs) : g.prs[j].state.val \notin StateEnum }
        IN  /\ TalliesStates(g)
            /\ g.open + g.closed + g.merged = Len(g.prs) - Cardinality(others)
            /\ others = {} => g.open + g.closed + g.merged = Len(g.prs)

\* C11: in every cohort of group_prs_by_title, after every iteration and in the
\* returned list, open, closed and merged are the numbers of members whose state
\* is OPEN, CLOSED and MERGED; a member of another state is counted by none of
\* them, so the three add up to the member count when every member's state is
\* one of the three (as it is for validated input).
Thm_C11_CountsTallyStates ==
    /\ ppc = "group" => CohortsTally(title_groups)
    /\ ppc = "returned" => CohortsTally(ret.value)

\* a cohort B of a merged, an open and an APPROVED record: open 1, merged 1
Wit_C11_StateOutsideTheThree ==
    /\ ppc = "returned"
    /\ Len(ret.value) = 1
    /\ ret.value[1].title = "B"
    /\ Len(ret.value[1].prs) = 3
    /\ ret.value[1].prs[1].state.val = "MERGED"
    /\ ret.value[1].prs[2].state.val = "OPEN"
    /\ ret.value[1].prs[3].state.val = "APPROVED"
    /\ ret.value[1].open = 1
    /\ ret.value[1].closed = 0
    /\ ret.value[1].merged = 1

\* the distinct titles of recs, in the order of their first occurrence
RECURSIVE FirstSeenTitles(_)
FirstSeenTitles(recs) ==
    IF recs = << >> THEN << >>
    ELSE LET before == FirstSeenTitles(SubSeq(recs, 1, Len(recs) - 1))
             title == recs[Len(recs)].title.val
         IN  IF \E n \in 1 .. Len(before) : before[n] = title
             THEN before
             ELSE Append(before, title)

\* groups are the cohorts of recs: one per distinct title, in first-seen order
\* of the titles, each with the records of its title in their input order
CohortsInInputOrder(groups, recs) ==
    /\ Len(groups) = Cardinality({ recs[j].title.val : j \in 1 .. Len(recs) })
    /\ Len(groups) = Len(FirstSeenTitles(recs))
    /\ \A n \in 1 .. Len(groups) :
         /\ groups[n].title = FirstSeenTitles(recs)[n]
         /\ groups[n].prs = WithTitle(recs, groups[n].title)

\* C12: group_prs_by_title emits exactly one cohort per distinct title, the
\* cohorts are in the order in which their titles first occur in the input, and
\* the members of a cohort are the input records of its title in input order;
\* after every iteration for the records grouped so far, and for the returned
\* list.
Thm_C12_FirstSeenOrder ==
    /\ ppc = "group" => CohortsInInputOrder(title_groups, SubSeq(valid_prs, 1, gi))
    /\ (ppc = "returned" /\ valid_prs # << >>)
       => CohortsInInputOrder(ret.grouped_prs, valid_prs)

\* titles B, A, B: cohort B comes first and holds the first and third records
Wit_C12_LaterTitleFirst ==
    /\ ppc = "returned"
    /\ Len(valid_prs) = 3
    /\ valid_prs[1].title.val = "B"
    /\ valid_prs[2].title.val = "A"
    /\ valid_prs[3].title.val = "B"
    /\ valid_prs[1] # valid_prs[3]
    /\ Len(ret.grouped_prs) = 2
    /\ ret.grouped_prs[1].title = "B"
    /\ ret.grouped_prs[1].prs = << valid_prs[1], valid_prs[3] >>
    /\ ret.grouped_prs[2].title = "A"

\* an open record whose checkStatus is ERROR or FAILURE
OpenAndFailed(r) ==
    r.state.val = "OPEN" /\ (r.checkStatus.val = "ERROR" \/ r.checkStatus.val = "FAILURE")

\* C13: the failing subset returned by process_consolidated_data has exactly one
\* entry, in input order, for each valid record that is OPEN with checkStatus
\* ERROR or FAILURE, and none for any other record; the entry carries the
\* record's title, its checkStatus as status, and the url
\* https://github.com/<repository>/pull/<number>.
Thm_C13_FailingSubset ==
    (ppc = "returned" /\ valid_prs # << >>) =>
        LET expected == SelectSeq(valid_prs, OpenAndFailed)
            failing == ret.failing_prs
        IN  /\ Len(failing) = Len(expected)
            /\ \A n \in 1 .. Len(expected) :
                 /\ failing[n].title = expected[n].title.val
                 /\ failing[n].status = expected[n].checkStatus.val
                 /\ failing[n].url = "https://github.com/" \o expected[n].repository.val
                                     \o "/pull/" \o expected[n].number.val

\* the single OPEN/FAILURE record o/r #1 of title A, before a closed record
\* with checkStatus FAILURE of the same title that is no failing entry
Wit_C13_OneOpenFailure ==
    /\ ppc = "returned"
    /\ Len(valid_prs) = 2
    /\ valid_prs[1].number.val = "1"
    /\ valid_prs[2].state.val = "CLOSED"
    /\ valid_prs[2].checkStatus.val = "FAILURE"
    /\ Len(ret.grouped_prs) = 1
    /\ ret.grouped_prs[1].title = "A"
    /\ ret.grouped_prs[1].open = 1
    /\ ret.grouped_prs[1].closed = 1
    /\ ret.grouped_prs[1].merged = 0
    /\ ret.failing_prs = << [title |-> "A", url |-> "https://github.com/o/r/pull/1",
                             status |-> "FAILURE"] >>

\* the valid records hold an open record of each check status of the files
OpenOfEveryStatus ==
    \A st \in {"ERROR", "FAILURE", "SUCCESS"} :
        \E n \in 1 .. Len(valid_prs) :
            valid_prs[n].state.val = "OPEN" /\ valid_prs[n].checkStatus.val = st

\* both runs on the file have returned from process_consolidated_data
BothRunsReturned ==
    /\ prev_run.kind = "run"
    /\ ppc = "returned"
    /\ prev_run.argv.FAILING_PRS_ERROR # argv.FAILING_PRS_ERROR

\* C14 as stated: the second argument selects the check statuses that count as
\* failing; two different selections among the statuses of the file differ on
\* an input that holds an open record of each status, so the run with the flag
\* true and the run with the flag false on such an input return different
\* failing subsets.
Cex_C14_FlagSelectsVocabulary ==
    (BothRunsReturned /\ OpenOfEveryStatus) => prev_run.failing_prs # ret.failing_prs

\* C14, what the program does: FAILING_PRS_ERROR is assigned and never read; the
\* run with the flag true and the run with the flag false return the same
\* failing subset, the open records whose checkStatus is ERROR or FAILURE.
Thm_C14_FlagIgnored ==
    (BothRunsReturned /\ valid_prs # << >>) =>
        /\ prev_run.failing_prs = ret.failing_prs
        /\ Len(ret.failing_prs) = Len(SelectSeq(valid_prs, OpenAndFailed))

\* both runs on a file of an open FAILURE, an open SUCCESS and an open ERROR
\* record have returned the same two failing entries
Wit_C14_SameSubsetBothFlags ==
    /\ BothRunsReturned
    /\ OpenOfEveryStatus
    /\ prev_run.argv.FAILING_PRS_ERROR
    /\ Len(ret.failing_prs) = 2
    /\ prev_run.failing_prs = ret.failing_prs

\* sanitize_sheet_name has been called
Sanitized == s_call.fn = "sanitize_sheet_name"

\* the title without the invalid characters and with its spaces replaced
Stripped(title) == ReplaceSpaces(RemoveInvalid(title))

\* str has none of the characters [ ] \ * ? / : and no space
SafeName(str) ==
    \A n \in 1 .. Len(str) :
        str[n] \notin {"[", "]", "\\", "*", "?", "/", ":", " "}

\* C15 as stated: for every title and every max_length the name returned has
\* none of the characters [ ] \ * ? / : and no space and is not longer than
\* max_length; it is the stripped title when that fits within max_length, and
\* otherwise a truncation of the stripped title followed by a suffix of 8
\* characters taken from the hash of the title.
Cex_C15_SafeWithinMaxLength ==
    Sanitized =>
        LET name == s_call.ret
            stripped == Stripped(s_call.title)
            text == IntText(s_call.hash)
        IN  /\ SafeName(name)
            /\ Len(name) <= s_call.max_length
            /\ Len(stripped) <= s_call.max_length => name = stripped
            /\ Len(stripped) > s_call.max_length =>
                 \E k \in 0 .. Len(stripped) :
                     /\ Len(text) >= HashSuffixLength
                     /\ name = SubSeq(stripped, 1, k) \o << "_" >>
                               \o SubSeq(text, Len(text) - HashSuffixLength + 1, Len(text))

\* C15, what the function does: the name has no invalid character and no
\* space; it is the stripped title when that fits within max_length; otherwise,
\* when max_length is at least 9, it is the first max_length - 9 characters of
\* the stripped title, an underscore and the last characters of the decimal
\* text of the hash, 8 of them or the whole text when that is shorter, and is
\* not longer than max_length.
Thm_C15_SanitizeWithRoom ==
    Sanitized =>
        LET name == s_call.ret
            stripped == Stripped(s_call.title)
            text == IntText(s_call.hash)
            suffix == IF Len(text) >= HashSuffixLength
                      THEN SubSeq(text, Len(text) - HashSuffixLength + 1, Len(text))
                      ELSE text
        IN  /\ SafeName(name)
            /\ Len(stripped) <= s_call.max_length => name = stripped
            /\ (Len(stripped) > s_call.max_length /\ s_call.max_length >= SuffixRoom) =>
                 /\ name = SubSeq(stripped, 1, s_call.max_length - SuffixRoom)
                           \o << "_" >> \o suffix
                 /\ Len(name) <= s_call.max_length

\* a title of 101 letters and the default max_length: 91 letters, an
\* underscore and the last 8 digits of the hash, 100 characters
Wit_C15_TruncatedToMaxLength ==
    /\ Sanitized
    /\ s_call.max_length = DefaultMaxLength
    /\ Len(s_call.title) = DefaultMaxLength + 1
    /\ s_call.hash = 1234567890
    /\ Len(s_call.ret) = DefaultMaxLength
    /\ SubSeq(s_call.ret, DefaultMaxLength - HashSuffixLength, DefaultMaxLength)
         = << "_", "3", "4", "5", "6", "7", "8", "9", "0" >>

\* the two titles of the run are longer than max_length and have the same
\* first 95 characters
TwoLongTitlesOfOnePrefix ==
    /\ Len(plugins) = 2
    /\ plugins[1] # plugins[2]
    /\ Len(plugins[1]) > DefaultMaxLength
    /\ Len(plugins[2]) > DefaultMaxLength
    /\ SubSeq(plugins[1], 1, DefaultMaxLength - 5) = SubSeq(plugins[2], 1, DefaultMaxLength - 5)

\* C16 as stated: two distinct titles longer than max_length (100) that share a
\* 95-character prefix always sanitize to different sheet names.
Cex_C16_LongTitlesNeverCollide ==
    (TwoLongTitlesOfOnePrefix /\ Len(names) >= 2) => names[1].name # names[2].name

\* C16, what the function gives: the two names differ when the two stripped
\* titles are longer than max_length and the last 8 characters of the decimal
\* texts of their hashes differ.
Thm_C16_DistinctHashSuffixes ==
    ( /\ TwoLongTitlesOfOnePrefix
      /\ Len(names) >= 2
      /\ Len(hashes) = 2
      /\ SliceLast(IntText(hashes[1].value), HashSuffixLength)
           # SliceLast(IntText(hashes[2].value), HashSuffixLength) )
    => names[1].name # names[2].name

\* two titles of 101 characters that differ in their last character only, with
\* hashes 1234567890 and 2034567890: one sheet name for both
SameSuffixCollision ==
    /\ TwoLongTitlesOfOnePrefix
    /\ Len(names) >= 2
    /\ Len(hashes) = 2
    /\ hashes[1].value = 1234567890
    /\ hashes[2].value = 2034567890
    /\ names[1].name = names[2].name

\* two titles of 101 characters, each with one invalid character at another
\* place: both stripped titles are the same 100 letters, no hash is taken
Wit_C16_SameStrippedTitle ==
    /\ TwoLongTitlesOfOnePrefix
    /\ Len(names) >= 2
    /\ hashes = << >>
    /\ Len(names[1].name) = DefaultMaxLength
    /\ names[1].name = names[2].name

NoValidRecord ==
    \/ file.kind # "list"
    \/ \A n \in 1 .. Len(file.value) : ~ IsValidRecord(file.value[n])

\* the script has gone past the test of the errors
ErrorsChecked == mpc # "process"

SomeFailure == failure # NoFailure

\* the process has ended with status 1 and the failed call was its last
EndedByFailure ==
    /\ mpc = "exited"
    /\ exit_code = 1
    /\ remote # << >>
    /\ remote[Len(remote)] = failure.at

\* the failure is one an except clause of the script logs: any exception in the
\* try block of a Local Build sheet, an APIError in the try block of the sheet
\* of a cohort
Logged(f) ==
    \/ f.at \in { "sheet Local Build Success", "sheet Local Build Tests Pass",
                  "sheet Local Build Tests Fail" }
    \/ /\ f.kind = "APIError"
       /\ \E n \in 1 .. Len(ret.grouped_prs) : f.at = "sheet " \o ret.grouped_prs[n].title

\* C19 as stated: whenever a remote call of the driver ends in a terminal
\* failure of the retry wrapper or in an unexpected exception, the failure
\* reaches the process boundary: the run ends there with a non-zero exit, and
\* no later section or cohort is run.
Cex_C19_FailuresPropagate == SomeFailure => EndedByFailure

\* C19, what the script does: the first failure of a remote call ends the run
\* with status 1 unless an except clause logs it; after a logged failure the
\* script goes on with the next section or cohort, and ends with status 0 when
\* no later call fails.
Thm_C19_PropagatesUnlessLogged ==
    /\ (SomeFailure /\ ~ Logged(failure)) => EndedByFailure
    /\ (SomeFailure /\ Logged(failure) /\ remote[Len(remote)] = failure.at)
       => (exit_code # 1 /\ (mpc = "exited" => exit_code = 0))

\* the sheet of the first of two cohorts fails with an APIError; the sheet of
\* the second is written and the process ends with status 0
Wit_C19_CohortFailureAbsorbed ==
    /\ mpc = "exited"
    /\ exit_code = 0
    /\ Len(ret.grouped_prs) = 2
    /\ failure = [at |-> "sheet A", kind |-> "APIError"]
    /\ remote[Len(remote)] = "sheet B"

\* the payload has the section of this label with this count
HasSection(payload, label, count) ==
    \E n \in 1 .. Len(payload) : payload[n] = [row |-> label, count |-> count]

HasRow(payload, label) == \E n \in 1 .. Len(payload) : payload[n].row = label

\* C20 as stated: when successful_builds.csv yields a record (test_results.csv
\* a passed or a failed record) and the id of the worksheet can be obtained,
\* every summary payload written to the Summary sheet has the Local Build
\* Success (Local Build Tests Pass, Local Build Tests Fail) section with its
\* count.
Cex_C20_SectionsFollowAuxFiles ==
    \A n \in 1 .. Len(written) :
        /\ (aux.builds > 0 /\ aux.sheet_ids)
           => HasSection(written[n], "Local Build Success", aux.builds)
        /\ (aux.passed > 0 /\ aux.sheet_ids /\ ~ argv.FORCE_UPDATE)
           => HasSection(written[n], "Local Build Tests Pass", aux.passed)
        /\ (aux.failed > 0 /\ aux.sheet_ids /\ ~ argv.FORCE_UPDATE)
           => HasSection(written[n], "Local Build Tests Fail", aux.failed)

\* C20, what the script does: the three has_* flags are False when the
\* sections of the summary are decided, whatever the auxiliary files hold (they
\* are assigned from the files after that), no worksheet id is asked for, and no
\* payload written to the Summary sheet has a Local Build section.
Thm_C20_SectionsNeverAdded ==
    /\ mpc = "sections" =>
         /\ ~ flags.has_successful_local_builds
         /\ ~ flags.has_tests_passed
         /\ ~ flags.has_tests_failed
    /\ \A n \in 1 .. Len(remote) :
         remote[n] \notin { "id Local Build Success", "id Local Build Tests Pass",
                            "id Local Build Tests Fail" }
    /\ \A n \in 1 .. Len(written) :
         /\ ~ HasRow(written[n], "Local Build Success")
         /\ ~ HasRow(written[n], "Local Build Tests Pass")
         /\ ~ HasRow(written[n], "Local Build Tests Fail")

\* successful_builds.csv has two records and the worksheets exist: the run ends
\* with status 0, the flag was set after the sections were decided, and both
\* payloads written hold the total, the plugin rows and nothing of the builds
Wit_C20_BuildsNotInSummary ==
    /\ mpc = "exited"
    /\ exit_code = 0
    /\ aux.builds = 2
    /\ aux.sheet_ids
    /\ flags.has_successful_local_builds
    /\ Len(written) = 2
    /\ written[1][1].row = "Total PRs"
    /\ ~ HasRow(written[2], "Local Build Success")
    /\ HasRow(written[2], "Failing PRs")

----------------------------------------------------------------------------
(* Order of the tests of handle_google_api_error *)

RetryableTokens == RateLimitTokens \cup BackendTokens

FatalTokens == AuthTokens \cup BadRequestTokens

\* C21: the classes are tested in the order rate-limit, backend,
\* authorization, malformed request: an error text that matches 401/403 or 400
\* and also holds a rate-limit or backend token is retried, with the backoff of
\* the first class that matches, and the answer is (False, 0) exactly when the
\* text matches 401/403/400 and no rate-limit or backend token.
Thm_C21_RetryableTestedFirst ==
    Handled =>
        /\ (Matches(h_call.e, FatalTokens) /\ Matches(h_call.e, RateLimitTokens))
           => h_call.ret.retry /\ InBackoffRange(h_call.ret.wait, 5, h_call.attempt)
        /\ (/\ Matches(h_call.e, FatalTokens)
            /\ Matches(h_call.e, BackendTokens)
            /\ ~ Matches(h_call.e, RateLimitTokens))
           => h_call.ret.retry /\ InBackoffRange(h_call.ret.wait, 10, h_call.attempt)
        /\ ~ h_call.ret.retry
           <=> (Matches(h_call.e, FatalTokens) /\ ~ Matches(h_call.e, RetryableTokens))
        /\ ~ h_call.ret.retry => h_call.ret.wait = 0

\* "403 ... Quota exceeded" on attempt 1: retried after 10 s, no jitter
Wit_C21_ForbiddenWithQuota ==
    /\ Handled
    /\ h_call.e = {"403", "Quota"}
    /\ h_call.attempt = 1
    /\ h_call.ret = [retry |-> TRUE, wait |-> 10000]

----------------------------------------------------------------------------
(* has_successful_builds_changed(): one call in each run of the script;     *)
(* between the runs successful_builds.csv is rewritten or removed by the    *)
(* job that produces it                                                     *)

\* the runs of the script in the model
MaxRuns == 3

\* a file is Missing or has a content: its lines and its line ends
Content(lines, eol) == [kind |-> "file", lines |-> lines, eol |-> eol]

\* the file a copy or a write cut short by an error leaves
EmptyFile == Content("", "LF")

Contents == { EmptyFile } \cup { Content(l, e) : l \in {"v1", "v2"}, e \in {"LF", "CRLF"} }

FileStates == { Missing } \cup Contents

\* f.read() of a file opened with open(path, 'r'): the text, each line end
\* read as "\n"
ReadText(c) == [lines |-> c.lines, eol |-> "LF"]

\* f.write(text) on a file opened with open(path, 'w'): "\n" is written as
\* os.linesep, "\n" on POSIX
WriteText(t) == Content(t.lines, "LF")

\* shutil.copy2(src, dst): dst has the bytes of src
Copy2(c) == c

\* a comparison that always finds a change
ContentDiffers_always(current_content, last_content) == TRUE

\* current_content != last_content
ContentDiffers(current_content, last_content) == current_content # last_content

SnapshotIdleVars == << backoffVars, h_call, retryVars, v_call, processVars, argv, aux,
                      mpc, remote, failure, exit_code, flags, summary_data, written,
                      names, ci, prev_run, sanitizeVars, updateVars, statsVars >>

InitSnapshot ==
    /\ IdleBackoff
    /\ IdleHandle
    /\ IdleRetry
    /\ IdleValidate
    /\ IdleData
    /\ IdleMain
    /\ IdleUpdate
    /\ csv_file \in FileStates
    /\ last_run_file \in FileStates
    /\ hb_call = [fn |-> "none"]
    /\ runs = 0

\* the record of one call: the two files as the call found them, whether an
\* I/O operation of the call failed, the value returned, and whether the call
\* before it found the same successful_builds.csv and ended without I/O error
Called(io, value) ==
    [fn |-> "has_successful_builds_changed", file |-> csv_file,
     last |-> last_run_file, io |-> io, ret |-> value,
     again |-> /\ hb_call.fn # "none"
               /\ hb_call.io = "ok"
               /\ hb_call.file = csv_file
               /\ csv_file # Missing]

\* if not os.path.exists(SUCCESSFUL_BUILDS_FILE): return False
FileAbsent ==
    /\ csv_file = Missing
    /\ hb_call' = Called("ok", FALSE)
    /\ UNCHANGED last_run_file

\* if not os.path.exists(last_run_file): copy the file (an error of the copy
\* is logged) and return True
FirstRun ==
    /\ csv_file # Missing
    /\ last_run_file = Missing
    /\ \/ /\ last_run_file' = Copy2(csv_file)
          /\ hb_call' = Called("ok", TRUE)
       \/ /\ last_run_file' \in { Missing, EmptyFile }
          /\ hb_call' = Called("error", TRUE)

\* the try block: read both files, and write the snapshot when they differ;
\* any exception returns True
Compare ==
    /\ csv_file # Missing
    /\ last_run_file # Missing
    /\ LET current_content == ReadText(csv_file)
           last_content == ReadText(last_run_file)
       IN  \/ /\ ContentDiffers(current_content, last_content)
              /\ \/ /\ last_run_file' = WriteText(current_content)
                    /\ hb_call' = Called("ok", TRUE)
                 \/ /\ last_run_file' \in { last_run_file, EmptyFile }
                    /\ hb_call' = Called("error", TRUE)
           \/ /\ ~ ContentDiffers(current_content, last_content)
              /\ hb_call' = Called("ok", FALSE)
              /\ UNCHANGED last_run_file
           \/ /\ hb_call' = Called("error", TRUE)
              /\ UNCHANGED last_run_file

\* successful_builds_changed = has_successful_builds_changed()
HasChanged ==
    /\ runs < MaxRuns
    /\ runs' = runs + 1
    /\ (FileAbsent \/ FirstRun \/ Compare)
    /\ UNCHANGED csv_file
    /\ UNCHANGED SnapshotIdleVars

\* between two runs successful_builds.csv is rewritten or removed
ChangeFile ==
    /\ runs < MaxRuns
    /\ csv_file' \in FileStates \ { csv_file }
    /\ UNCHANGED << last_run_file, hb_call, runs >>
    /\ UNCHANGED SnapshotIdleVars

NextSnapshot == HasChanged \/ ChangeFile

SpecSnapshot == InitSnapshot /\ [][NextSnapshot]_vars

----------------------------------------------------------------------------
(* Properties of update_sheet_with_retry *)

\* the step before step i of the call, when it belongs to the same attempt
Follows(i, step) ==
    /\ i > 1
    /\ ops[i - 1] = [step |-> step, ok |-> TRUE, attempt |-> ops[i].attempt]

\* every attempt runs clear, sleep, validate, update, sleep in this order,
\* and an attempt starts only as the first one or after a failed step
StepsInOrder ==
    \A i \in 1 .. Len(ops) :
        /\ ops[i].step = "clear" =>
             \/ i = 1 /\ ops[i].attempt = 0
             \/ i > 1 /\ ~ ops[i - 1].ok /\ ops[i].attempt = ops[i - 1].attempt + 1
        /\ ops[i].step = "sleep_1" => Follows(i, "clear")
        /\ ops[i].step = "validate" => Follows(i, "sleep_1")
        /\ ops[i].step = "update" => Follows(i, "validate")
        /\ ops[i].step = "sleep_2" => Follows(i, "update")

StepsOf(step) == { i \in 1 .. Len(ops) : ops[i].step = step }

\* a successful return: the last attempt cleared and then wrote the sheet
SuccessWrote ==
    rpc = "succeeded" =>
        /\ sheet = data.val
        /\ result = "None"
        /\ Len(ops) >= 5
        /\ ops[Len(ops)] = [step |-> "sleep_2", ok |-> TRUE, attempt |-> attempt]
        /\ ops[Len(ops) - 4] = [step |-> "clear", ok |-> TRUE, attempt |-> attempt]

\* every attempt, the first and each retry, clears the sheet; one backoff sleep
\* precedes each retry
RetryReclears ==
    /\ Cardinality(StepsOf("clear")) = IF upc = "clear" THEN attempt ELSE attempt + 1
    /\ Len(sleeps) = attempt

\* data is empty or is no list or tuple
EmptyOrNotList == data.val = << >> \/ data.type \notin {"list", "tuple"}

CallEnded == upc = "done"

NoWriteIssued == StepsOf("update") = {}

\* C22 as stated: the steps of every attempt are in the order clear, settle
\* delay, validate, write, settle delay; a successful return implies the last
\* attempt cleared then wrote the sheet; each retry re-clears the sheet; and a
\* call with empty or non-list data ends with the sheet cleared, no write
\* issued and a ValueError raised after exactly one attempt with no backoff
\* sleep.
Cex_C22_InvalidDataEndsInOneAttempt ==
    /\ StepsInOrder
    /\ SuccessWrote
    /\ RetryReclears
    /\ (EmptyOrNotList /\ CallEnded) =>
         /\ sheet = << >>
         /\ NoWriteIssued
         /\ raised = ValueError
         /\ calls = 1
         /\ sleeps = << >>

\* C22 amended: the order of the steps, the successful return and the
\* re-clearing hold as stated. A call with empty or non-list data issues no
\* write and never returns; it raises ValueError in the first attempt whose
\* clear succeeds, with the sheet cleared and one backoff sleep for each
\* earlier attempt, so after exactly one attempt and no sleep when the first
\* clear succeeds; when a clear fails for good the error of the clear is
\* raised instead and the sheet may be left uncleared.
Thm_C22_InvalidDataRaisesAfterClear ==
    /\ StepsInOrder
    /\ SuccessWrote
    /\ RetryReclears
    /\ EmptyOrNotList => NoWriteIssued /\ rpc # "succeeded"
    /\ (EmptyOrNotList /\ CallEnded) =>
         /\ rpc = "failed"
         /\ Len(sleeps) = calls - 1
         /\ IF ops[Len(ops)].step = "validate"
            THEN /\ raised = ValueError
                 /\ sheet = << >>
                 /\ Cardinality(StepsOf("validate")) = 1
                 /\ \A i \in StepsOf("clear") : ops[i].ok <=> i = Len(ops) - 2
            ELSE /\ raised \in UpdateErrors
                 /\ ops[Len(ops)] = [step |-> "clear", ok |-> FALSE, attempt |-> attempt]
                 /\ StepsOf("validate") = {}
         /\ ops[1].ok => (raised = ValueError /\ calls = 1 /\ sleeps = << >>)

\* data is an empty list and the first clear is answered 429: the clear is
\* retried after 5 s, and ValueError is raised in the second attempt
Wit_C22_ValueErrorAfterRetriedClear ==
    /\ data = [type |-> "list", val |-> << >>]
    /\ CallEnded
    /\ raised = ValueError
    /\ calls = 2
    /\ sleeps = << 5000 >>
    /\ outcomes[1] = [kind |-> "APIError", text |-> {"429"}]
    /\ sheet = << >>
    /\ Len(ops) = 4

----------------------------------------------------------------------------
(* Properties of has_successful_builds_changed *)

ChangedCalled == hb_call.fn = "has_successful_builds_changed"

\* C23 as stated: the call returns False when successful_builds.csv is absent,
\* True when it exists and there is no snapshot, and otherwise True exactly
\* when the content of the file differs from the snapshot; after a call that
\* found the file and met no I/O error the snapshot equals the file, and a
\* second call on an unchanged file returns False.
Cex_C23_ChangedIffContentDiffers ==
    ChangedCalled =>
        /\ hb_call.file = Missing => ~ hb_call.ret
        /\ (hb_call.file # Missing /\ hb_call.last = Missing) => hb_call.ret
        /\ (hb_call.file # Missing /\ hb_call.last # Missing)
           => (hb_call.ret <=> hb_call.file # hb_call.last)
        /\ (hb_call.file # Missing /\ hb_call.io = "ok") => last_run_file = hb_call.file
        /\ hb_call.again => ~ hb_call.ret

\* C23 amended: False when the file is absent, True when it exists and there
\* is no snapshot, True when an I/O operation of the call fails, and otherwise
\* True exactly when the text of the file differs from the text of the
\* snapshot, both read with every line end as "\n"; after a call that found the
\* file and met no I/O error the snapshot has the text of the file, and a second
\* call on an unchanged file that meets no I/O error returns False.
Thm_C23_ChangedIffTextDiffers ==
    ChangedCalled =>
        /\ hb_call.file = Missing
           => (~ hb_call.ret /\ hb_call.io = "ok" /\ last_run_file = hb_call.last)
        /\ (hb_call.file # Missing /\ hb_call.last = Missing) => hb_call.ret
        /\ hb_call.io = "error" => hb_call.ret
        /\ (hb_call.file # Missing /\ hb_call.last # Missing /\ hb_call.io = "ok")
           => (hb_call.ret <=> ReadText(hb_call.file) # ReadText(hb_call.last))
        /\ (hb_call.file # Missing /\ hb_call.io = "ok")
           => (last_run_file # Missing /\ ReadText(last_run_file) = ReadText(hb_call.file))
        /\ (hb_call.again /\ hb_call.io = "ok") => ~ hb_call.ret

\* the second run finds the file of the first run, with CRLF line ends, and
\* the snapshot the first run wrote from its text: no change
Wit_C23_SecondCallUnchanged ==
    /\ ChangedCalled
    /\ runs = 2
    /\ hb_call.again
    /\ hb_call.io = "ok"
    /\ ~ hb_call.ret
    /\ hb_call.file = Content("v1", "CRLF")
    /\ hb_call.last = Content("v1", "LF")

----------------------------------------------------------------------------
(* Sheets of the cohorts of one run *)

\* the calls of the cohort loop for two cohorts of different titles
TwoCohortSheets(n, k) ==
    /\ names[n].at = "sheet"
    /\ names[k].at = "sheet"
    /\ names[n].title # names[k].title

Fits(title) == Len(Stripped(title)) <= DefaultMaxLength

\* C24 as stated: no two distinct titles of one run map to the same sheet
\* name, so the payloads of two cohorts are written to distinct worksheets.
Cex_C24_DistinctTitlesDistinctSheets ==
    \A n, k \in 1 .. Len(names) :
        TwoCohortSheets(n, k) => names[n].name # names[k].name

\* C24, what the loop does: the sheet of a cohort whose stripped title fits
\* within 100 characters is named by the stripped title, so two such cohorts
\* share a worksheet exactly when their titles differ only in the characters
\* [ ] \ * ? / : or in a space written as an underscore.
Thm_C24_SheetNamedByStrippedTitle ==
    \A n, k \in 1 .. Len(names) :
        /\ Fits(names[n].title) => names[n].name = Stripped(names[n].title)
        /\ (TwoCohortSheets(n, k) /\ Fits(names[n].title) /\ Fits(names[k].title))
           => (names[n].name = names[k].name
               <=> Stripped(names[n].title) = Stripped(names[k].title))

\* the cohorts "a" and "a/": both payloads go to the worksheet "a"
Wit_C24_ShortTitlesOneSheet ==
    /\ mpc = "done"
    /\ plugins = << << "a" >>, << "a", "/" >> >>
    /\ hashes = << >>
    /\ names[3] = [at |-> "sheet", title |-> << "a" >>, name |-> << "a" >>]
    /\ names[4] = [at |-> "sheet", title |-> << "a", "/" >>, name |-> << "a" >>]

----------------------------------------------------------------------------
(* The totals of the summary *)

\* the totals and plugin_stats have been computed
TotalsComputed == totals # [kind |-> "none"]

\* the number of records of the consolidated file that pass the validation
ValidCount == Cardinality({ n \in 1 .. Len(file.value) : IsValidRecord(file.value[n]) })

\* the entry of plugin_stats for a cohort has the counts of the cohort
StatsOfCohort(group) ==
    \E n \in 1 .. Len(plugin_stats) :
        plugin_stats[n] = [ title |-> group.title, total |-> Len(group.prs),
                            open |-> group.open, closed |-> group.closed,
                            merged |-> group.merged ]

\* C25: in every run that reaches the construction of the summary, total_prs
\* is the number of valid records, open_prs + closed_prs + merged_prs is
\* total_prs, plugin_stats has one entry for each cohort, holding the counts of
\* the cohort, and the failing subset has at most open_prs entries.
Thm_C25_TotalsMatchValidation ==
    TotalsComputed =>
        /\ file.kind = "list"
        /\ totals.total_prs = ValidCount
        /\ totals.total_prs = Len(valid_prs)
        /\ totals.total_prs > 0
        /\ totals.open_prs + totals.closed_prs + totals.merged_prs = totals.total_prs
        /\ totals.open_prs = Cardinality({ n \in 1 .. Len(valid_prs) :
                                             valid_prs[n].state.val = "OPEN" })
        /\ Len(plugin_stats) = Len(ret.grouped_prs)
        /\ \A n \in 1 .. Len(ret.grouped_prs) : StatsOfCohort(ret.grouped_prs[n])
        /\ Len(ret.failing_prs) <= totals.open_prs
        /\ summary_data[1] = Row("Total PRs", ValidCount)

\* an open failing record and a closed one of cohort A, a merged one of cohort
\* B: three records, one of each state, one failing entry
Wit_C25_OneOfEachState ==
    /\ TotalsComputed
    /\ totals = [total_prs |-> 3, open_prs |-> 1, closed_prs |-> 1, merged_prs |-> 1]
    /\ Len(plugin_stats) = 2
    /\ plugin_stats[1] = [title |-> "A", total |-> 2, open |-> 1, closed |-> 1, merged |-> 0]
    /\ plugin_stats[2] = [title |-> "B", total |-> 1, open |-> 0, closed |-> 0, merged |-> 1]
    /\ Len(ret.failing_prs) = 1

====
